---- MODULE Spec2Model ----
(***************************************************************************)
(* Model of the course packaging layer of the CMA course maker:            *)
(* zipManager.zipCourse / zipManager.unzipCourse (lib), the image          *)
(* normalizer resizeImageToSquare, db.saveCourse, and the App / HomePage   *)
(* handlers that call them.                                                *)
(*                                                                         *)
(* JavaScript strings are modelled as sequences of one-character strings,  *)
(* so that trimming, the character-class replacement and the template      *)
(* literal that builds a mascot path are computed as the code computes     *)
(* them.  JavaScript objects are records; an optional property that is not *)
(* set is a key that is not in the record's DOMAIN.                        *)
(***************************************************************************)
EXTENDS Integers, Sequences, FiniteSets, TLC

VARIABLES
    course,          \* App: useState<Course | null>
    view,            \* App: useState<'home' | 'editor' | 'student'>
    alerts,          \* number of alert() notices shown by HomePage.handleFileChange
    debounceTimeout, \* App.debounceTimeoutRef: the pending save, or NoTimer
    dbCourses,       \* the IndexedDB object store 'courses' (sequence of put values)
    blobStore,       \* the page's blob URL store: URL n denotes blobStore[n]
    console,         \* the messages written by console.warn / console.error
    zcourse,         \* zipCourse: the argument course
    zids,            \* zipCourse: the argument moduleIdsToInclude
    courseToSave,    \* zipCourse: local courseToSave
    zip,             \* zipCourse: the JSZip object, entry name -> content
    zi,              \* zipCourse: number of loop iterations done (media, then mascot)
    zpc,             \* zipCourse: position
    zstatus,         \* zipCourse: state of the returned promise
    ufile,           \* unzipCourse: the entries of the loaded archive
    ucourse,         \* unzipCourse: local course (parsed from curso.json)
    uwait,           \* unzipCourse: the per-asset callbacks awaiting file.async('blob')
    upc,             \* unzipCourse / HomePage.handleFileChange: position
    now,             \* the reading Date.now() gives
    isExportSelectionModalOpen,   \* App: useState(false)
    selectedModuleIdsForExport,   \* App: useState<Set<string>>, in insertion order
    selectedIds,     \* ExportSelectionModal: useState<Set<string>>, in insertion order
    updates,         \* history: course updates since the last db.saveCourse call
    edits,           \* history: course updates made in the editor so far
    burst,           \* history: the course updates the last db.saveCourse call followed
    currentModuleIndex,  \* StudentPage state: index of the module shown, from 0
    answers,         \* StudentPage state: questionId -> optionId
    showResults      \* StudentPage state: the results screen is shown

vars == <<course, view, alerts, debounceTimeout, dbCourses, blobStore, console,
          zcourse, zids, courseToSave, zip, zi, zpc, zstatus,
          ufile, ucourse, uwait, upc,
          now, isExportSelectionModalOpen, selectedModuleIdsForExport, selectedIds,
          updates, edits, burst, currentModuleIndex, answers, showResults>>

(***************************************************************************)
(* Bounds of the model.                                                    *)
(***************************************************************************)
MaxNameLen == 2     \* longest enumerated mascot name (besides the named examples)
MaxModules == 3     \* longest enumerated module list
MaxIds == 2         \* longest enumerated module-id filter
MaxAssets == 2      \* most media records plus mascot poses in an enumerated course

(***************************************************************************)
(* Strings.                                                                *)
(***************************************************************************)
Lower == {"a","b","c","d","e","f","g","h","i","j","k","l","m",
          "n","o","p","q","r","s","t","u","v","w","x","y","z"}
Upper == {"A","B","C","D","E","F","G","H","I","J","K","L","M",
          "N","O","P","Q","R","S","T","U","V","W","X","Y","Z"}
Digit == {"0","1","2","3","4","5","6","7","8","9"}

\* the characters String.prototype.trim removes (white space, line terminators)
WhiteSpace == {" ", "\t", "\n", "\r"}

\* /[^a-zA-Z0-9]/ does NOT match c
IsAlnum(c) == c \in Lower \cup Upper \cup Digit

RECURSIVE TrimStart(_)
TrimStart(s) ==
    IF s = <<>> THEN s
    ELSE IF Head(s) \in WhiteSpace THEN TrimStart(Tail(s)) ELSE s

RECURSIVE TrimEnd(_)
TrimEnd(s) ==
    IF s = <<>> THEN s
    ELSE IF s[Len(s)] \in WhiteSpace THEN TrimEnd(SubSeq(s, 1, Len(s) - 1)) ELSE s

\* String.prototype.trim
Trim(s) == TrimEnd(TrimStart(s))

\* s.replace(/[^a-zA-Z0-9]/g, '_')
ReplaceKeepsPunct(s) == [i \in 1..Len(s) |-> IF IsAlnum(s[i]) \/ s[i] = "!" THEN s[i] ELSE "_"]
ReplaceNonAlnum(s) == [i \in 1..Len(s) |-> IF IsAlnum(s[i]) THEN s[i] ELSE "_"]

StrMascot == <<"m","a","s","c","o","t">>
StrMascotDir == <<"m","a","s","c","o","t","/">>
StrPng == <<".","p","n","g">>
StrJpg == <<".","j","p","g">>
StrImgDir == <<"i","m","g","/">>
StrCursoJson == <<"c","u","r","s","o",".","j","s","o","n">>

\* course.settings.mascotName?.trim().replace(/[^a-zA-Z0-9]/g, '_') || 'mascot'
SlugNoTrim(settings) ==
    IF "mascotName" \notin DOMAIN settings THEN StrMascot
    ELSE LET r == ReplaceNonAlnum(settings.mascotName)
         IN  IF r = <<>> THEN StrMascot ELSE r
MascotSlug(settings) ==
    IF "mascotName" \notin DOMAIN settings THEN StrMascot
    ELSE LET r == ReplaceNonAlnum(Trim(settings.mascotName))
         IN  IF r = <<>> THEN StrMascot ELSE r

\* `mascot/${mascotName}_${pose.type}.png`
NewPath(mascotName, pose) == StrMascotDir \o mascotName \o <<"_">> \o pose.type \o StrPng

(***************************************************************************)
(* Values.                                                                 *)
(***************************************************************************)
\* the JavaScript value null, as the App's course state holds it
Null == [null |-> TRUE]

NoTimer == [timer |-> FALSE]

\* JSON.stringify of an object with no enumerable own property (a File): {}
EmptyObject == <<>>

Side == 1500

\* Binary contents.  decodes: an <img> element can decode it.  made: how the Blob
\* object came to be in the page: "file" (a File the user picked, or an entry read
\* from an archive), "network" (a response body), "canvas" (canvas.toBlob).
MediaBytes(id) ==
    [format |-> "jpeg", width |-> 640, height |-> 480, decodes |-> TRUE, data |-> id,
     made |-> "file"]
PngImage(w, h, id) ==
    [format |-> "png", width |-> w, height |-> h, decodes |-> TRUE, data |-> id,
     made |-> "file"]
CorruptFile(id) ==
    [format |-> "unknown", width |-> 0, height |-> 0, decodes |-> FALSE, data |-> id,
     made |-> "file"]
\* the body of an HTTP error response
ErrorBody ==
    [format |-> "html", width |-> 0, height |-> 0, decodes |-> FALSE, data |-> 0,
     made |-> "network"]
\* the slot of a blob URL that has been revoked
Revoked ==
    [format |-> "revoked", width |-> 0, height |-> 0, decodes |-> FALSE, data |-> 0,
     made |-> "none"]

\* const {file, blobUrl, ...rest} = rec : rec without the keys in `keys`
Without(rec, keys) == [k \in DOMAIN rec \ keys |-> rec[k]]

Range(s) == {s[i] : i \in DOMAIN s}

\* all sequences over S of length at most n
BoundedSeq(S, n) == UNION {[1..k -> S] : k \in 0..n}

(***************************************************************************)
(* Browser primitives.                                                     *)
(***************************************************************************)
\* URL.createObjectURL(blob): a fresh URL bound to the blob
CreateObjectURL(store, blob) == [store |-> Append(store, blob), url |-> Len(store) + 1]

IsLive(store, url) == url \in 1..Len(store) /\ store[url] # Revoked

NetOutcomes == {"response", "throw"}

\* const response = await fetch(item.blobUrl); const blob = await response.blob()
\* A live blob: URL yields its blob; a revoked one makes fetch reject.  With no
\* blobUrl the request goes to the relative URL "undefined": the network either
\* answers (any status; fetch resolves and blob() is the body) or fetch rejects.
Fetch(item, store, net) ==
    IF "blobUrl" \in DOMAIN item
    THEN IF IsLive(store, item.blobUrl)
         THEN [threw |-> FALSE, blob |-> store[item.blobUrl]]
         ELSE [threw |-> TRUE]
    ELSE IF net = "response"
         THEN [threw |-> FALSE, blob |-> ErrorBody]
         ELSE [threw |-> TRUE]

\* the canvas environment: getContext('2d') returns a context, toBlob yields a blob
CanvasEnvs == {[ctx |-> TRUE, blob |-> TRUE], [ctx |-> FALSE, blob |-> TRUE],
               [ctx |-> TRUE, blob |-> FALSE]}

\* resizeImageToSquare(blobOrFile): resolves with a 1500x1500 PNG, rejects when the
\* image does not load, the context is null or toBlob gives null
resizeImageKeepsSize(blob, canvas) ==
    IF ~blob.decodes \/ ~canvas.ctx \/ ~canvas.blob THEN [rejected |-> TRUE]
    ELSE [rejected |-> FALSE,
          blob |-> [format |-> "png", width |-> blob.width, height |-> blob.height,
                    decodes |-> TRUE, data |-> blob.data, made |-> "canvas"]]
resizeImageToSquare(blob, canvas) ==
    IF ~blob.decodes THEN [rejected |-> TRUE]
    ELSE IF ~canvas.ctx THEN [rejected |-> TRUE]
    ELSE IF ~canvas.blob THEN [rejected |-> TRUE]
    ELSE [rejected |-> FALSE,
          blob |-> [format |-> "png", width |-> Side, height |-> Side,
                    decodes |-> TRUE, data |-> blob.data, made |-> "canvas"]]

\* zip.file(name, data): add or replace the entry `name`
ZipFile(z, name, data) ==
    [n \in DOMAIN z \cup {name} |-> IF n = name THEN data ELSE z[n]]

\* zip.file(name) is not null
HasEntry(z, name) == name \in DOMAIN z

(***************************************************************************)
(* JSON.                                                                   *)
(***************************************************************************)
\* JSON.stringify of an asset record: a File property serializes as {}
JsonAsset(rec) == [k \in DOMAIN rec |-> IF k = "file" THEN EmptyObject ELSE rec[k]]

\* JSON.stringify(cleanCourse, null, 2), as the value JSON.parse gives back
JSONStringify(c) ==
    [c EXCEPT !.media = [i \in DOMAIN @ |-> JsonAsset(@[i])],
              !.mascot = [i \in DOMAIN @ |-> JsonAsset(@[i])]]

JsonEntry(c) == [format |-> "json", json |-> JSONStringify(c)]

(***************************************************************************)
(* zipManager.zipCourse                                                    *)
(***************************************************************************)
\* moduleIdsToInclude is [given |-> FALSE] when the argument is omitted
NoFilter == [given |-> FALSE]
Filter(ids) == [given |-> TRUE, ids |-> ids]

\* moduleIdsToInclude ? modules.filter(m => ids.includes(m.id)) : modules
FilterModulesMissingAsEmpty(modules, f) ==
    SelectSeq(modules, LAMBDA m : m.id \in (IF f.given THEN Range(f.ids) ELSE {}))
FilterModulesByPosition(modules, f) ==
    IF f.given
    THEN LET found == SelectSeq(f.ids, LAMBDA id : \E k \in DOMAIN modules : modules[k].id = id)
         IN  [k \in DOMAIN found |->
                 modules[CHOOSE j \in DOMAIN modules :
                            /\ modules[j].id = found[k]
                            /\ \A l \in DOMAIN modules : modules[l].id = found[k] => j <= l]]
    ELSE modules
FilterModules(modules, f) ==
    IF f.given
    THEN SelectSeq(modules, LAMBDA m : m.id \in Range(f.ids))
    ELSE modules

\* courseToSave.mascot.map(pose => ({ ...pose, path: newPath }))
RenameMascot(c) ==
    [i \in DOMAIN c.mascot |->
        [c.mascot[i] EXCEPT !.path = NewPath(MascotSlug(c.settings), c.mascot[i])]]

\* courseToSave after the module filter and the mascot renaming (a copy: the
\* argument course is not assigned to)
CourseToSaveRenamesMedia(c, f) ==
    [c EXCEPT !.modules = FilterModules(c.modules, f),
              !.mascot = RenameMascot(c),
              !.media = [i \in DOMAIN @ |->
                            [@[i] EXCEPT !.path = StrImgDir \o MascotSlug(c.settings)
                                                  \o <<"_">> \o @]]]
CourseToSave(c, f) ==
    [c EXCEPT !.modules = FilterModules(c.modules, f),
              !.mascot = RenameMascot(c)]

\* ({file, blobUrl, ...rest}) => rest
CleanKeepsBlobUrl(rec) == Without(rec, {"file"})
Clean(rec) == Without(rec, {"file", "blobUrl"})

\* cleanCourse = { ...courseToSave, media: cleanMedia, mascot: cleanMascot }
CleanCourse(cs) ==
    [cs EXCEPT !.media = [i \in DOMAIN @ |-> Clean(@[i])],
               !.mascot = [i \in DOMAIN @ |-> Clean(@[i])]]

\* One iteration of the media loop.  threw: an exception leaves the loop body.
WarnMedia(item) == <<"warn", "Could not fetch blob for", item.path>>
WarnMascot(item) == <<"warn", "Could not fetch blob for mascot", item.path>>
ErrorResize(item) == <<"error", "Failed to resize mascot", item.type>>
ErrorOpen == <<"error", "Failed to open project:", <<>> >>

MediaStepNoCatch(z, item, store, net) ==
    IF "file" \in DOMAIN item
    THEN [zip |-> ZipFile(z, item.path, item.file), threw |-> FALSE, log |-> {}]
    ELSE LET r == Fetch(item, store, net)
         IN  IF r.threw
             THEN [zip |-> z, threw |-> TRUE, log |-> {}]
             ELSE [zip |-> ZipFile(z, item.path, r.blob), threw |-> FALSE, log |-> {}]
MediaStepSkipsFile(z, item, store, net) ==
    LET r == Fetch(item, store, net)
    IN  IF "file" \in DOMAIN item \/ r.threw
        THEN [zip |-> z, threw |-> FALSE,
              log |-> IF "file" \in DOMAIN item THEN {} ELSE {WarnMedia(item)}]
        ELSE [zip |-> ZipFile(z, item.path, r.blob), threw |-> FALSE, log |-> {}]
MediaStepPlaceholder(z, item, store, net) ==
    IF "file" \in DOMAIN item
    THEN [zip |-> ZipFile(z, item.path, item.file), threw |-> FALSE, log |-> {}]
    ELSE LET r == Fetch(item, store, net)
         IN  [zip |-> ZipFile(z, item.path, IF r.threw THEN ErrorBody ELSE r.blob),
              threw |-> FALSE, log |-> IF r.threw THEN {WarnMedia(item)} ELSE {}]
MediaStep(z, item, store, net) ==
    IF "file" \in DOMAIN item
    THEN [zip |-> ZipFile(z, item.path, item.file), threw |-> FALSE, log |-> {}]
    ELSE LET r == Fetch(item, store, net)
         IN  IF r.threw
             THEN [zip |-> z, threw |-> FALSE, log |-> {WarnMedia(item)}]   \* catch
             ELSE [zip |-> ZipFile(z, item.path, r.blob), threw |-> FALSE, log |-> {}]

\* the content of a mascot pose: item.file, or the fetched blob, or nothing
MascotContent(item, store, net) ==
    IF "file" \in DOMAIN item
    THEN [found |-> TRUE, blob |-> item.file]
    ELSE LET r == Fetch(item, store, net)
         IN  IF r.threw
             THEN [found |-> FALSE]                    \* catch: console.warn
             ELSE [found |-> TRUE, blob |-> r.blob]

\* One iteration of the mascot loop.
MascotStepSkipsNormalized(z, item, store, net, canvas) ==
    LET c == MascotContent(item, store, net)
    IN  IF c.found
        THEN IF c.blob.format = "png" /\ c.blob.width = Side /\ c.blob.height = Side
             THEN [zip |-> ZipFile(z, item.path, c.blob), threw |-> FALSE, log |-> {}]
             ELSE LET r == resizeImageToSquare(c.blob, canvas)
                  IN  IF r.rejected
                      THEN [zip |-> ZipFile(z, item.path, c.blob), threw |-> FALSE,
                            log |-> {ErrorResize(item)}]
                      ELSE [zip |-> ZipFile(z, item.path, r.blob), threw |-> FALSE,
                            log |-> {}]
        ELSE [zip |-> z, threw |-> FALSE, log |-> {WarnMascot(item)}]
MascotStep(z, item, store, net, canvas) ==
    LET c == MascotContent(item, store, net)
    IN  IF c.found
        THEN LET r == resizeImageToSquare(c.blob, canvas)
             IN  IF r.rejected
                 THEN [zip |-> ZipFile(z, item.path, c.blob), threw |-> FALSE,
                       log |-> {ErrorResize(item)}]        \* catch: fall back to the original
                 ELSE [zip |-> ZipFile(z, item.path, r.blob), threw |-> FALSE, log |-> {}]
        ELSE [zip |-> z, threw |-> FALSE, log |-> {WarnMascot(item)}]

NMedia == Len(courseToSave.media)
NMascot == Len(courseToSave.mascot)

UnchangedApp == UNCHANGED <<course, view, alerts, debounceTimeout, dbCourses>>
UnchangedUnzip == UNCHANGED <<ufile, ucourse, uwait, upc>>
UnchangedZip == UNCHANGED <<zcourse, zids, courseToSave, zip, zi, zpc, zstatus>>
UnchangedModal ==
    UNCHANGED <<isExportSelectionModalOpen, selectedModuleIdsForExport, selectedIds>>
\* StudentPage's useState initial values (what it has when it is mounted)
StudentUnmounted ==
    /\ currentModuleIndex = 0
    /\ answers = <<>>
    /\ showResults = FALSE
UnchangedStudent == UNCHANGED <<currentModuleIndex, answers, showResults>>
UnchangedEditor == UnchangedModal /\ UnchangedStudent /\ UNCHANGED <<now, edits, burst>>

\* The argument course after the assignments to courseToSave.  courseToSave is
\* { ...course }, a copy of the top level, and each pose is copied ({ ...pose, path })
\* before it gets its new path: the assignments do not reach the argument
CourseArgumentAliased(c, copy) == copy
CourseArgument(c, copy) == c

\* zipCourse up to the first await: the copy, the filter, the renaming, the
\* cleaning and zip.file('curso.json', ...)
ZipBegin ==
    /\ zpc = "begin"
    /\ courseToSave' = CourseToSave(zcourse, zids)
    /\ zip' = ZipFile(zip, StrCursoJson, JsonEntry(CleanCourse(courseToSave')))
    /\ zi' = 0
    /\ zpc' = "loop"
    /\ zcourse' = CourseArgument(zcourse, courseToSave')
    /\ UNCHANGED <<zids, zstatus, blobStore, console>>
    /\ UnchangedApp /\ UnchangedUnzip /\ UnchangedEditor /\ UNCHANGED updates

\* the effect of one loop iteration on the call
ZipAdvance(r) ==
    IF r.threw
    THEN /\ zpc' = "done"
         /\ zstatus' = "rejected"
         /\ UNCHANGED <<zip, zi, console>>
    ELSE /\ zip' = r.zip
         /\ zi' = zi + 1
         /\ console' = console \cup r.log
         /\ UNCHANGED <<zpc, zstatus>>

\* for (const item of courseToSave.media) { ... }
ZipMedia ==
    /\ zpc = "loop"
    /\ zi < NMedia
    /\ \E net \in NetOutcomes :
          ZipAdvance(MediaStep(zip, courseToSave.media[zi + 1], blobStore, net))
    /\ UNCHANGED <<zcourse, zids, courseToSave, blobStore>>
    /\ UnchangedApp /\ UnchangedUnzip /\ UnchangedEditor /\ UNCHANGED updates

\* for (const item of courseToSave.mascot) { ... }
ZipMascot ==
    /\ zpc = "loop"
    /\ zi >= NMedia
    /\ zi < NMedia + NMascot
    /\ \E net \in NetOutcomes, canvas \in CanvasEnvs :
          ZipAdvance(MascotStep(zip, courseToSave.mascot[zi - NMedia + 1],
                                blobStore, net, canvas))
    /\ UNCHANGED <<zcourse, zids, courseToSave, blobStore>>
    /\ UnchangedApp /\ UnchangedUnzip /\ UnchangedEditor /\ UNCHANGED updates

\* return zip.generateAsync({ type: 'blob' }): resolves with the archive, or
\* rejects when compression fails
ZipGenerate ==
    /\ zpc = "loop"
    /\ zi = NMedia + NMascot
    /\ \E ok \in BOOLEAN : zstatus' = IF ok THEN "resolved" ELSE "rejected"
    /\ zpc' = "done"
    /\ UNCHANGED <<zcourse, zids, courseToSave, zip, zi, blobStore, console>>
    /\ UnchangedApp /\ UnchangedUnzip /\ UnchangedEditor /\ UNCHANGED updates

(***************************************************************************)
(* zipManager.unzipCourse, called by HomePage.handleFileChange             *)
(***************************************************************************)
\* JSON.parse(courseContent)
JSONParse(entry) == entry.json

\* the per-asset callbacks that found an entry and await file.async('blob')
WaitingMediaOnly(file, c) ==
    {<<"media", k>> : k \in {j \in DOMAIN c.media : HasEntry(file, c.media[j].path)}}
Waiting(file, c) ==
    {<<"media", k>> : k \in {j \in DOMAIN c.media : HasEntry(file, c.media[j].path)}}
    \cup {<<"mascot", k>> : k \in {j \in DOMAIN c.mascot : HasEntry(file, c.mascot[j].path)}}

\* mediaItem.blobUrl = url (the record is mutated in place)
SetBlobUrl(rec, url) ==
    [k \in DOMAIN rec \cup {"blobUrl"} |-> IF k = "blobUrl" THEN url ELSE rec[k]]

\* await Promise.all(promises): the results in the order of the promises
PromiseAllReversed(list) == [i \in DOMAIN list |-> list[Len(list) + 1 - i]]
PromiseAll(list) == list

\* the files the user can pick in the open-project dialog: the archive zipCourse
\* produced, and the same archive built without its curso.json entry
OpenableFiles ==
    IF zstatus = "resolved" THEN {zip, Without(zip, {StrCursoJson})} ELSE {}

\* JSON.parse(JSON.stringify(course, (key, value) => key === 'file' ? undefined : value))
CourseToStore(c) ==
    [c EXCEPT !.media = [i \in DOMAIN @ |-> Without(@[i], {"file"})],
              !.mascot = [i \in DOMAIN @ |-> Without(@[i], {"file"})]]

\* store.put(courseToStore) on an object store with keyPath 'id'
StorePut(store, c) ==
    [k \in DOMAIN store \cup {c.id} |-> IF k = c.id THEN c ELSE store[k]]

ErrorSave == <<"error", "Failed to save course to DB", <<>> >>

\* App.debouncedSave: clearTimeout of the pending timer, then a new timer
\* (due: the timer's delay of one second has elapsed)
debouncedSaveNoDelay(c) == [timer |-> TRUE, course |-> c, due |-> TRUE]
debouncedSave(c) == [timer |-> TRUE, course |-> c, due |-> FALSE]

\* the catch block of HomePage.handleFileChange: console.error and alert; the
\* App's state is not touched
HandleOpenErrorOpensEditor ==
    /\ alerts' = alerts + 1
    /\ console' = console \cup {ErrorOpen}
    /\ view' = "editor"
    /\ UNCHANGED <<course, debounceTimeout, dbCourses>>
HandleOpenError ==
    /\ alerts' = alerts + 1
    /\ console' = console \cup {ErrorOpen}
    /\ UNCHANGED <<course, view, debounceTimeout, dbCourses>>

\* HomePage.handleFileChange up to the per-asset awaits of unzipCourse:
\* JSZip.loadAsync, the curso.json lookup (throw when it is missing, caught by
\* handleFileChange), JSON.parse and the two map() calls
HomeOpenProject(file) ==
    /\ view = "home"
    /\ upc = "idle"
    /\ ufile' = file
    /\ IF ~HasEntry(file, StrCursoJson)
       THEN /\ upc' = "failed"                 \* throw new Error('curso.json not found in zip')
            /\ HandleOpenError
            /\ UNCHANGED <<ucourse, uwait>>
       ELSE /\ ucourse' = JSONParse(file[StrCursoJson])
            /\ uwait' = Waiting(file, ucourse')
            /\ upc' = "extract"
            /\ UNCHANGED console
            /\ UnchangedApp
    /\ UNCHANGED <<blobStore, updates>>
    /\ UnchangedZip /\ UnchangedEditor

HomeHandleFileChange == \E file \in OpenableFiles : HomeOpenProject(file)

\* the continuation of one per-asset callback after await file.async('blob'):
\* item.blobUrl = URL.createObjectURL(blob)
UnzipExtract ==
    /\ upc = "extract"
    /\ \E a \in uwait :
         LET list == IF a[1] = "media" THEN ucourse.media ELSE ucourse.mascot
             item == list[a[2]]
             made == CreateObjectURL(blobStore, ufile[item.path])
             set  == [list EXCEPT ![a[2]] = SetBlobUrl(item, made.url)]
         IN  /\ blobStore' = made.store
             /\ ucourse' = IF a[1] = "media" THEN [ucourse EXCEPT !.media = set]
                                             ELSE [ucourse EXCEPT !.mascot = set]
             /\ uwait' = uwait \ {a}
    /\ UNCHANGED <<ufile, upc, console, updates>>
    /\ UnchangedApp
    /\ UnchangedZip /\ UnchangedEditor

\* await Promise.all(promises) resumes: none of the per-asset callbacks is pending
SettledWhilePending(wait) == TRUE
Settled(wait) == wait = {}

\* both Promise.all resolved: unzipCourse returns course; handleFileChange calls
\* onCourseLoad = App.handleCourseLoad: setCourse, debouncedSave, setView('editor')
UnzipReturn ==
    /\ upc = "extract"
    /\ Settled(uwait)
    /\ upc' = "loaded"
    /\ ucourse' = [ucourse EXCEPT !.media = PromiseAll(@), !.mascot = PromiseAll(@)]
    /\ course' = ucourse'
    /\ debounceTimeout' = debouncedSave(ucourse')
    /\ updates' = updates + 1
    /\ view' = "editor"
    /\ UNCHANGED <<alerts, dbCourses, blobStore, console, ufile, uwait>>
    /\ UnchangedZip /\ UnchangedEditor

\* one second has passed since the timer was set: its callback may run
TimerElapse ==
    /\ debounceTimeout.timer
    /\ ~debounceTimeout.due
    /\ debounceTimeout' = [debounceTimeout EXCEPT !.due = TRUE]
    /\ UNCHANGED <<course, view, alerts, dbCourses, blobStore, console, updates>>
    /\ UnchangedUnzip
    /\ UnchangedZip /\ UnchangedEditor

\* the debounce timer fires: db.saveCourse(courseToSave); store.put replaces the
\* value under the course id; a failed transaction is caught and logged
DebounceFire ==
    /\ debounceTimeout.timer
    /\ debounceTimeout.due
    /\ \E ok \in BOOLEAN :
         IF ok
         THEN /\ dbCourses' = StorePut(dbCourses, CourseToStore(debounceTimeout.course))
              /\ UNCHANGED console
         ELSE /\ console' = console \cup {ErrorSave}
              /\ UNCHANGED dbCourses
    /\ debounceTimeout' = NoTimer
    /\ updates' = 0
    /\ burst' = updates
    /\ UNCHANGED <<course, view, alerts, blobStore, now, edits>>
    /\ UnchangedUnzip
    /\ UnchangedZip /\ UnchangedModal /\ UnchangedStudent

(***************************************************************************)
(* The enumerated inputs.                                                  *)
(***************************************************************************)
StrHappy == <<"h","a","p","p","y">>
StrSad == <<"s","a","d">>
StrCustom == <<"w","a","v","e"," ","1">>     \* a custom pose tag

DinoName == <<"D","i","n","o"," ","2","0","0","0","!">>
NameChars == {"a", "Z", "7", " ", "!"}
Names == BoundedSeq(NameChars, MaxNameLen) \cup {DinoName}

SettingsOf(names) ==
    {[courseName |-> "Curso"]} \cup {[courseName |-> "Curso", mascotName |-> n] : n \in names}

Module(id) == [id |-> id, type |-> "text", title |-> id]
ModulePool == {Module("m1"), Module("m2"), Module("m3")}
IdPool == {"m1", "m2", "m3", "m9"}

DigitChars == <<"1","2","3","4","5","6","7","8","9">>

\* The enumerated courses are well formed: asset ids and media paths are distinct
\* (a path is assigned when the asset is attached), media paths are not under
\* mascot/, and there is one pose per pose tag (MascotEditor keeps it so).
MediaPath(i) == StrImgDir \o <<DigitChars[i]>> \o StrJpg

\* how a record got its content handles
MediaCases == {"file", "blob", "revoked", "none"}
PoseHandles == {"file", "corrupt", "blob", "none"}
PoseTags == {StrHappy, StrSad, StrCustom}
PoseCases == [type : PoseTags, handle : PoseHandles]

\* media record number i, holding blob URL i
MkMedia(i, h) ==
    LET base == [id |-> i, name |-> i, path |-> MediaPath(i), type |-> "image"]
    IN  CASE h = "file" -> base @@ [blobUrl |-> i, file |-> MediaBytes(i)]
        []   h = "none" -> base
        []   OTHER -> base @@ [blobUrl |-> i]

\* mascot pose holding blob URL i.  "file"/"corrupt": uploaded in the editor
\* (MascotEditor.handleFileChange sets path mascot/<type>.png); "blob": loaded from an
\* archive exported under the default mascot token; "none": declared by a document
\* whose archive had no entry for it
MkPose(i, c) ==
    CASE c.handle = "file" ->
            [type |-> c.type, path |-> StrMascotDir \o c.type \o StrPng,
             blobUrl |-> i, file |-> PngImage(800, 600, i)]
    []   c.handle = "corrupt" ->
            [type |-> c.type, path |-> StrMascotDir \o c.type \o StrPng,
             blobUrl |-> i, file |-> CorruptFile(i)]
    []   c.handle = "blob" ->
            [type |-> c.type, path |-> NewPath(StrMascot, [type |-> c.type]), blobUrl |-> i]
    []   OTHER ->
            [type |-> c.type, path |-> StrImgDir \o c.type \o StrJpg]

\* the blob behind URL i of an asset
SlotOf(i, h, isPose) ==
    CASE h = "file" -> IF isPose THEN PngImage(800, 600, i) ELSE MediaBytes(i)
    []   h = "corrupt" -> CorruptFile(i)
    []   h = "blob" -> IF isPose THEN PngImage(Side, Side, i) ELSE MediaBytes(i)
    []   OTHER -> Revoked

MkCourse(settings, modules, ms, ps) ==
    [id |-> "c1", settings |-> settings, modules |-> modules,
     media |-> [i \in DOMAIN ms |-> MkMedia(i, ms[i])],
     mascot |-> [i \in DOMAIN ps |-> MkPose(Len(ms) + i, ps[i])]]

MkStore(ms, ps) ==
    [i \in 1..(Len(ms) + Len(ps)) |->
        IF i <= Len(ms) THEN SlotOf(i, ms[i], FALSE)
        ELSE SlotOf(i, ps[i - Len(ms)].handle, TRUE)]

Input(settings, modules, ms, ps, f) ==
    [course |-> MkCourse(settings, modules, ms, ps), store |-> MkStore(ms, ps), ids |-> f]

ThreeModules == <<Module("m1"), Module("m2"), Module("m3")>>

\* pose lists of length n with one pose per tag
PoseLists(n) ==
    {ps \in [1..n -> PoseCases] : \A i, j \in 1..n : ps[i].type = ps[j].type => i = j}

\* courses rich in assets
AssetInputs ==
    UNION {{Input(st, ThreeModules, ms, ps, f) :
                st \in SettingsOf({DinoName}),
                ms \in [1..k -> MediaCases],
                ps \in UNION {PoseLists(n) : n \in 0..(MaxAssets - k)},
                f \in {NoFilter, Filter(<<"m2">>)}} : k \in 0..MaxAssets}

\* courses rich in mascot names and pose tags
NameInputs ==
    {Input(st, ThreeModules, <<>>, <<[type |-> t, handle |-> h]>>, NoFilter) :
        st \in SettingsOf(Names), t \in {StrHappy, StrCustom}, h \in {"file", "none"}}

\* courses rich in module lists and filters
FilterInputs ==
    {Input(st, mods, <<"blob">>, <<[type |-> StrHappy, handle |-> "file"]>>, f) :
        st \in SettingsOf({}),
        mods \in BoundedSeq(ModulePool, MaxModules),
        f \in {NoFilter} \cup {Filter(ids) : ids \in BoundedSeq(IdPool, MaxIds)}}

Inputs == AssetInputs \cup NameInputs \cup FilterInputs

\* App freshly mounted (course null, view 'home'); zipCourse called with an
\* enumerated course and filter
Init ==
    /\ course = Null
    /\ view = "home"
    /\ alerts = 0
    /\ debounceTimeout = NoTimer
    /\ dbCourses = <<>>
    /\ console = {}
    /\ \E in \in Inputs :
         /\ zcourse = in.course
         /\ zids = in.ids
         /\ blobStore = in.store
    /\ courseToSave = Null
    /\ zip = <<>>
    /\ zi = 0
    /\ zpc = "begin"
    /\ zstatus = "pending"
    /\ ufile = <<>>
    /\ ucourse = Null
    /\ uwait = {}
    /\ upc = "idle"
    /\ now = 0
    /\ isExportSelectionModalOpen = FALSE
    /\ selectedModuleIdsForExport = <<>>
    /\ selectedIds = <<>>
    /\ updates = 0
    /\ edits = 0
    /\ burst = 0
    /\ StudentUnmounted

Next ==
    \/ ZipBegin
    \/ ZipMedia
    \/ ZipMascot
    \/ ZipGenerate
    \/ HomeHandleFileChange
    \/ UnzipExtract
    \/ UnzipReturn
    \/ TimerElapse
    \/ DebounceFire

Spec == Init /\ [][Next]_vars

(***************************************************************************)
(* The editor session: Sidebar, MascotEditor, ExportSelectionModal and the *)
(* App handlers they call.                                                 *)
(***************************************************************************)
MaxNow == 1         \* the Date.now() readings are 0..MaxNow
MaxEdits == 3       \* most course updates in an editor session
MaxUrls == 3        \* most blob URLs created by uploads
MaxAlerts == 1      \* most alert() notices counted

\* `mod_${Date.now()}`
ModId(t) == <<"mod_", ToString(t)>>

StrMascote == <<"M","a","s","c","o","t","e">>

\* createNewCourse(): the settings the packaging layer reads, no module, no asset
createNewCourse(t) ==
    [id |-> <<"course_", ToString(t)>>,
     settings |-> [courseName |-> "Novo Curso Sem Titulo", mascotName |-> StrMascote],
     modules |-> <<>>, media |-> <<>>, mascot |-> <<>>]

\* the module types addModule's switch handles; any other type returns
AddableTypes == {"text", "video", "quiz", "cards"}
TypeInputs == {"text", "quiz", "timeline"}

NewTitle(type) ==
    CASE type = "text" -> <<"Novo Texto">>
    []   type = "video" -> <<"Novo Video">>
    []   type = "quiz" -> <<"Novo Quiz">>
    []   OTHER -> <<"Novos Cards">>

\* newModule = { ...commonProps, type, title }
NewModule(type, t) == [id |-> ModId(t), type |-> type, title |-> NewTitle(type)]

\* course.modules.findIndex(m => m.id === moduleId), 0 when there is none
FindIndex(modules, moduleId) ==
    IF \E k \in DOMAIN modules : modules[k].id = moduleId
    THEN CHOOSE k \in DOMAIN modules :
            /\ modules[k].id = moduleId
            /\ \A j \in DOMAIN modules : modules[j].id = moduleId => k <= j
    ELSE 0

\* list.splice(i, 0, x) with i counted from 0: x inserted after the first i elements
SpliceIn(list, i, x) == SubSeq(list, 1, i) \o <<x>> \o SubSeq(list, i + 1, Len(list))

\* list.splice(i, 1) with i counted from 1: the list without its element i
SpliceOut(list, i) == SubSeq(list, 1, i - 1) \o SubSeq(list, i + 1, Len(list))

\* prev.mascot.filter(m => m.type !== poseType)
WithoutTagKeepsAll(mascot, poseType) == mascot
WithoutTag(mascot, poseType) == SelectSeq(mascot, LAMBDA m : m.type # poseType)

\* the pose ids of the MascotEditor's upload slots that the model exercises
EditorPoseTags == {StrHappy, StrSad}

RECURSIVE NewSet(_)
\* new Set(list): the distinct elements in order of first insertion
NewSet(list) ==
    IF list = <<>> THEN <<>>
    ELSE LET rest == NewSet(SubSeq(list, 1, Len(list) - 1))
             x == list[Len(list)]
         IN  IF x \in Range(rest) THEN rest ELSE Append(rest, x)

\* new Set(course.modules.map(m => m.id))
AllModuleTitles(c) == NewSet([i \in DOMAIN c.modules |-> c.modules[i].title])
AllModuleIds(c) == NewSet([i \in DOMAIN c.modules |-> c.modules[i].id])

\* toggleSelection: newSet.has(id) ? newSet.delete(id) : newSet.add(id)
Toggle(set, id) ==
    IF id \in Range(set) THEN SelectSeq(set, LAMBDA x : x # id) ELSE Append(set, id)

\* the export button's disabled={selectedIds.size === 0}
ExportNeverDisabled == FALSE
ExportDisabled == Len(selectedIds) = 0

\* App.handleSetCourse(resolvedCourse): setCourse, then debouncedSave
HandleSetCourse(c) ==
    /\ edits < MaxEdits
    /\ course' = c
    /\ debounceTimeout' = debouncedSave(c)
    /\ updates' = updates + 1
    /\ edits' = edits + 1

\* what an edit of the course leaves alone (besides blobStore)
UnchangedByEdit ==
    /\ UNCHANGED <<view, alerts, dbCourses, console, now, burst>>
    /\ UnchangedZip /\ UnchangedUnzip /\ UnchangedModal /\ UnchangedStudent

\* Sidebar.addModule(type) at clock reading now
AddModule ==
    /\ view = "editor"
    /\ \E type \in TypeInputs :
          IF type \in AddableTypes
          THEN /\ Len(course.modules) < MaxModules
               /\ HandleSetCourse([course EXCEPT !.modules = Append(@, NewModule(type, now))])
               /\ UNCHANGED blobStore
               /\ UnchangedByEdit
          ELSE UNCHANGED vars                       \* default: return

\* Sidebar.duplicateModule(moduleId), for the id of a module the sidebar lists
DuplicateModule ==
    /\ view = "editor"
    /\ Len(course.modules) < MaxModules
    /\ \E k \in DOMAIN course.modules :
          LET moduleId == course.modules[k].id
              index == FindIndex(course.modules, moduleId)
              moduleToDuplicate == course.modules[index]
              newModule == [moduleToDuplicate EXCEPT !.id = ModId(now),
                                                     !.title = Append(@, "(Copia)")]
          IN  HandleSetCourse([course EXCEPT !.modules = SpliceIn(@, index, newModule)])
    /\ UNCHANGED blobStore
    /\ UnchangedByEdit

\* newIndex = direction === 'up' ? index - 1 : index + 1 (index counted from 1)
NewIndexStay(index, direction) == index
NewIndex(index, direction) == IF direction = "up" THEN index - 1 ELSE index + 1

\* the three early returns of Sidebar.moveModule
MoveReturns(modules, moduleId, direction) ==
    LET index == FindIndex(modules, moduleId)
    IN  \/ index = 0
        \/ direction = "up" /\ index = 1
        \/ direction = "down" /\ index = Len(modules)

\* newModules of Sidebar.moveModule: the item spliced out at index and in at newIndex
MovedModules(modules, moduleId, direction) ==
    LET index == FindIndex(modules, moduleId)
        newIndex == NewIndex(index, direction)
    IN  SpliceIn(SpliceOut(modules, index), newIndex - 1, modules[index])

\* course.modules after Sidebar.moveModule(moduleId, direction)
ModulesAfterMove(modules, moduleId, direction) ==
    IF MoveReturns(modules, moduleId, direction)
    THEN modules
    ELSE MovedModules(modules, moduleId, direction)

\* Sidebar.moveModule(moduleId, direction), for the id of a module the sidebar lists
MoveModule ==
    /\ view = "editor"
    /\ \E k \in DOMAIN course.modules, direction \in {"up", "down"} :
          LET moduleId == course.modules[k].id
          IN  /\ ~MoveReturns(course.modules, moduleId, direction)
              /\ HandleSetCourse([course EXCEPT !.modules =
                     ModulesAfterMove(@, moduleId, direction)])
    /\ UNCHANGED blobStore
    /\ UnchangedByEdit

\* a millisecond passes
ClockTick ==
    /\ now < MaxNow
    /\ now' = now + 1
    /\ UNCHANGED <<course, view, alerts, debounceTimeout, dbCourses, blobStore, console,
                   updates, edits, burst>>
    /\ UnchangedZip /\ UnchangedUnzip /\ UnchangedModal /\ UnchangedStudent

\* the files a user picks: a PNG image, a file named .png that does not decode,
\* a JPEG image
UploadedFile(kind, id) ==
    CASE kind = "file" -> PngImage(800, 600, id)
    []   kind = "corrupt" -> CorruptFile(id)
    []   OTHER -> MediaBytes(id)

\* file.type of such a file
FileType(file) == IF file.format = "jpeg" THEN "image/jpeg" ELSE "image/png"

\* file.type !== 'image/png'
NotPngNever(file) == FALSE
NotPng(file) == FileType(file) # "image/png"

\* newMascotPose = { type: poseType, path: `mascot/${poseType}.png`, blobUrl, file }
NewMascotPose(poseType, blobUrl, file) ==
    [type |-> poseType, path |-> StrMascotDir \o poseType \o StrPng,
     blobUrl |-> blobUrl, file |-> file]

\* MascotEditor.handleFileChange(e, poseType): a file of type image/png (which
\* decodes, or does not), or a file of another type
MascotHandleFileChange ==
    /\ view = "editor"
    /\ \E poseType \in EditorPoseTags, kind \in {"file", "corrupt", "jpeg"} :
          LET file == UploadedFile(kind, Len(blobStore) + 1)
          IN  IF NotPng(file)
              THEN /\ alerts < MaxAlerts
                   /\ alerts' = alerts + 1           \* alert(...); return
                   /\ UNCHANGED <<course, view, debounceTimeout, dbCourses, blobStore,
                                  console, now, updates, edits, burst>>
                   /\ UnchangedZip /\ UnchangedUnzip /\ UnchangedModal /\ UnchangedStudent
              ELSE /\ Len(blobStore) < MaxUrls
                   /\ LET made == CreateObjectURL(blobStore, file)
                          newMascotPose == NewMascotPose(poseType, made.url, file)
                      IN  /\ blobStore' = made.store
                          /\ HandleSetCourse([course EXCEPT !.mascot =
                                 Append(WithoutTag(@, poseType), newMascotPose)])
                   /\ UnchangedByEdit

\* MascotEditor.removePose(poseType), for a slot that shows a pose
RemovePose ==
    /\ view = "editor"
    /\ \E poseType \in EditorPoseTags :
          /\ \E i \in DOMAIN course.mascot : course.mascot[i].type = poseType
          /\ HandleSetCourse([course EXCEPT !.mascot = WithoutTag(@, poseType)])
    /\ UNCHANGED blobStore
    /\ UnchangedByEdit

\* what the export modal's handlers leave alone
UnchangedByModal ==
    /\ UNCHANGED <<course, view, alerts, debounceTimeout, dbCourses, blobStore, console,
                   now, updates, edits, burst>>
    /\ UnchangedUnzip /\ UnchangedStudent

\* App.openExportSelectionModal, then the modal's mount effect
\* setSelectedIds(new Set(initialSelectedIds))
OpenExportSelectionModal ==
    /\ view = "editor"
    /\ course # Null
    /\ ~isExportSelectionModalOpen
    /\ selectedModuleIdsForExport' = AllModuleIds(course)
    /\ isExportSelectionModalOpen' = TRUE
    /\ selectedIds' = selectedModuleIdsForExport'
    /\ UnchangedByModal /\ UnchangedZip

\* ExportSelectionModal.toggleSelection(module.id), for a module the modal lists
ToggleSelection ==
    /\ isExportSelectionModalOpen
    /\ \E k \in DOMAIN course.modules :
          selectedIds' = Toggle(selectedIds, course.modules[k].id)
    /\ UNCHANGED <<isExportSelectionModalOpen, selectedModuleIdsForExport>>
    /\ UnchangedByModal /\ UnchangedZip

\* ExportSelectionModal.toggleAll (rendered when the course has a module)
ToggleAll ==
    /\ isExportSelectionModalOpen
    /\ Len(course.modules) # 0
    /\ selectedIds' = IF Len(selectedIds) = Len(course.modules)        \* allSelected
                      THEN <<>>
                      ELSE AllModuleIds(course)
    /\ UNCHANGED <<isExportSelectionModalOpen, selectedModuleIdsForExport>>
    /\ UnchangedByModal /\ UnchangedZip

\* onClose: the modal is unmounted and its state dropped
CloseModal ==
    /\ isExportSelectionModalOpen
    /\ isExportSelectionModalOpen' = FALSE
    /\ selectedIds' = <<>>
    /\ UNCHANGED selectedModuleIdsForExport
    /\ UnchangedByModal /\ UnchangedZip

\* the export button (not disabled): handleConfirm, App.handleConfirmExport up to
\* its call zipManager.zipCourse(course, selectedIds)
HandleConfirmExport ==
    /\ isExportSelectionModalOpen
    /\ ~ExportDisabled
    /\ isExportSelectionModalOpen' = FALSE
    /\ selectedIds' = <<>>
    /\ UNCHANGED selectedModuleIdsForExport
    /\ zcourse' = course
    /\ zids' = Filter(selectedIds)                 \* Array.from(selectedIds)
    /\ courseToSave' = Null
    /\ zip' = <<>>
    /\ zi' = 0
    /\ zpc' = "begin"
    /\ zstatus' = "pending"
    /\ UnchangedByModal

\* the App after handleCourseLoad(c)
EditorOpen(c) ==
    /\ course = c
    /\ view = "editor"
    /\ alerts = 0
    /\ debounceTimeout = debouncedSave(course)
    /\ updates = 1
    /\ edits = 0
    /\ burst = 0
    /\ StudentUnmounted
    /\ dbCourses = <<>>
    /\ blobStore = <<>>
    /\ console = {}
    /\ zcourse = Null
    /\ zids = NoFilter
    /\ courseToSave = Null
    /\ zip = <<>>
    /\ zi = 0
    /\ zpc = "idle"
    /\ zstatus = "idle"
    /\ ufile = <<>>
    /\ ucourse = Null
    /\ uwait = {}
    /\ upc = "idle"
    /\ isExportSelectionModalOpen = FALSE
    /\ selectedModuleIdsForExport = <<>>
    /\ selectedIds = <<>>

\* the App after HomePage.handleNewCourse: handleCourseLoad(createNewCourse())
EditorInit ==
    /\ now \in 0..1
    /\ EditorOpen(createNewCourse(now))

\* the sidebar and the export modal
EditorNext ==
    \/ AddModule
    \/ DuplicateModule
    \/ MoveModule
    \/ ClockTick
    \/ OpenExportSelectionModal
    \/ ToggleSelection
    \/ ToggleAll
    \/ CloseModal
    \/ HandleConfirmExport

EditorSpec == EditorInit /\ [][EditorNext]_vars

\* course updates and the debounced save
DebounceNext ==
    \/ AddModule
    \/ MascotHandleFileChange
    \/ RemovePose
    \/ TimerElapse
    \/ DebounceFire

\* window.setTimeout: a timer that is not cleared comes due, and the event loop
\* runs the callback of a due timer that is not cleared
DebounceSpec ==
    EditorInit /\ [][DebounceNext]_vars /\ WF_vars(TimerElapse) /\ WF_vars(DebounceFire)

(***************************************************************************)
(* Updates given to setCourse as functions of the previous course.         *)
(***************************************************************************)
\* the values typed into a title or name field
TypedTitles == {<<"Editado">>, <<"Final">>}
TypedNames == {<<"R","e","x">>, <<"Z","e">>}

\* EditorPage.updateModule's updater:
\* prev => ({ ...prev, modules: prev.modules.map(m => m.id === u.id ? u : m) })
UpdateModuleIn(prev, updatedModule) ==
    [prev EXCEPT !.modules =
        [k \in DOMAIN @ |-> IF @[k].id = updatedModule.id THEN updatedModule ELSE @[k]]]

\* MascotEditor.handleNameChange's updater
RenameMascotIn(prev, name) == [prev EXCEPT !.settings.mascotName = name]

\* MascotEditor.handleFileChange's updater
UploadPoseIn(prev, pose) ==
    [prev EXCEPT !.mascot = Append(WithoutTag(@, pose.type), pose)]

\* Two calls of App.handleSetCourse in one task, before React renders again: each
\* resolves its updater against the course of the closure (the last rendered one),
\* calls setCourse with the resolved value and debouncedSave; c1 and c2 are the two
\* resolved values
HandleSetCourseTwice(c1, c2) ==
    /\ edits + 2 <= MaxEdits
    /\ course' = c2
    /\ debounceTimeout' = debouncedSave(c2)
    /\ updates' = updates + 2
    /\ edits' = edits + 2

\* a module editor's onChange of the title: onUpdate({ ...module, title: value })
UpdateModule ==
    /\ view = "editor"
    /\ \E k \in DOMAIN course.modules, title \in TypedTitles :
          /\ course.modules[k].title # title
          /\ HandleSetCourse(UpdateModuleIn(course, [course.modules[k] EXCEPT !.title = title]))
    /\ UNCHANGED blobStore
    /\ UnchangedByEdit

\* MascotEditor.handleNameChange(e)
MascotHandleNameChange ==
    /\ view = "editor"
    /\ \E name \in TypedNames :
          /\ course.settings.mascotName # name
          /\ HandleSetCourse(RenameMascotIn(course, name))
    /\ UNCHANGED blobStore
    /\ UnchangedByEdit

\* two updateModule calls on modules of different ids, before the next render
UpdateTwoModules ==
    /\ view = "editor"
    /\ \E k1, k2 \in DOMAIN course.modules, title \in TypedTitles :
          /\ course.modules[k1].id # course.modules[k2].id
          /\ course.modules[k1].title # title
          /\ course.modules[k2].title # title
          /\ HandleSetCourseTwice(
                 UpdateModuleIn(course, [course.modules[k1] EXCEPT !.title = title]),
                 UpdateModuleIn(course, [course.modules[k2] EXCEPT !.title = title]))
    /\ UNCHANGED blobStore
    /\ UnchangedByEdit

\* a pose upload followed by a mascot rename, before the next render
UploadThenRename ==
    /\ view = "editor"
    /\ Len(blobStore) < MaxUrls
    /\ \E poseType \in EditorPoseTags, name \in TypedNames :
          LET newMascotPose ==
                  MkPose(Len(blobStore) + 1, [type |-> poseType, handle |-> "file"])
              made == CreateObjectURL(blobStore, newMascotPose.file)
          IN  /\ course.settings.mascotName # name
              /\ blobStore' = made.store
              /\ HandleSetCourseTwice(UploadPoseIn(course, newMascotPose),
                                      RenameMascotIn(course, name))
    /\ UnchangedByEdit

\* updates with and without a render between them
BatchNext ==
    \/ AddModule
    \/ ClockTick
    \/ UpdateModule
    \/ MascotHandleNameChange
    \/ UpdateTwoModules
    \/ UploadThenRename

\* the editor on a new course, or on a course that got two modules at different,
\* earlier clock readings
BatchInit ==
    /\ now = 0
    /\ \E modules \in {<<>>, <<NewModule("text", 0 - 2), NewModule("quiz", 0 - 1)>>} :
          EditorOpen([createNewCourse(0 - 3) EXCEPT !.modules = modules])

BatchSpec == BatchInit /\ [][BatchNext]_vars

(***************************************************************************)
(* QuizModuleEditor.                                                       *)
(***************************************************************************)
MaxQuizEdits == 5   \* most course updates in a quiz editor session
MaxQuestions == 2   \* most questions of the quiz
MaxOptions == 4     \* most options of a question

\* `q_${Date.now()}`, `opt_${Date.now()}_1`, `opt_${Date.now()}`
QuestionId(t) == <<"q_", ToString(t)>>
OptionIdN(t, n) == <<"opt_", ToString(t), "_", ToString(n)>>
OptionId(t) == <<"opt_", ToString(t)>>

\* `Opção ${n}`
OptionText(n) == <<"Opcao ", ToString(n)>>

\* addModule's case 'quiz': { ...commonProps, type, title: 'Novo Quiz', questions: [] }
NewQuizModule(t) == NewModule("quiz", t) @@ [questions |-> <<>>]

\* addQuestion's newQuestion; Date.now() is read once for the question id, once
\* for each option id and once for correctOptionId
NewQuestion(tq, t1, t2, tc) ==
    [id |-> QuestionId(tq),
     question |-> <<"Nova Pergunta">>,
     options |-> <<[id |-> OptionIdN(t1, 1), text |-> OptionText(1)],
                   [id |-> OptionIdN(t2, 2), text |-> OptionText(2)]>>,
     correctOptionId |-> OptionIdN(tc, 1),
     explanation |-> <<>>]

\* module.questions.map(q => q.id === qId ? f(q) : q), f given as a function on
\* the questions
MapQuestion(questions, qId, f) ==
    [i \in DOMAIN questions |-> IF questions[i].id = qId THEN f[questions[i]] ELSE questions[i]]

\* the questions of the quiz module the editor shows
Questions == Range(course.modules[1].questions)

\* removeOption's callback on the question qId
RemoveOptionFrom(q, optId) ==
    IF Len(q.options) <= 2 THEN q
    ELSE [q EXCEPT !.options = SelectSeq(@, LAMBDA o : o.id # optId)]

\* App.handleSetCourse in a quiz editor session
QuizSetCourse(c) ==
    /\ edits < MaxQuizEdits
    /\ course' = c
    /\ debounceTimeout' = debouncedSave(c)
    /\ updates' = updates + 1
    /\ edits' = edits + 1

\* the quiz module the editor shows, and onUpdate({ ...module, questions })
QuizModule == course.modules[1]
QuizOnUpdate(questions) ==
    QuizSetCourse(UpdateModuleIn(course, [QuizModule EXCEPT !.questions = questions]))

\* what a quiz edit leaves alone (besides the clock)
UnchangedByQuiz ==
    /\ UNCHANGED <<view, alerts, dbCourses, console, blobStore, burst>>
    /\ UnchangedZip /\ UnchangedUnzip /\ UnchangedModal /\ UnchangedStudent

\* QuizModuleEditor.addQuestion; the clock may advance between its readings
AddQuestion ==
    /\ Len(QuizModule.questions) < MaxQuestions
    /\ \E tq, t1, t2, tc \in now..MaxNow :
          /\ tq <= t1 /\ t1 <= t2 /\ t2 <= tc
          /\ now' = tc
          /\ QuizOnUpdate(Append(QuizModule.questions, NewQuestion(tq, t1, t2, tc)))
    /\ UnchangedByQuiz

\* updateQuestion(q.id, 'correctOptionId', opt.id) from the radio of an option
\* the editor lists under the question
UpdateQuestion ==
    /\ \E i \in DOMAIN QuizModule.questions :
          \E j \in DOMAIN QuizModule.questions[i].options :
              LET qId == QuizModule.questions[i].id
                  value == QuizModule.questions[i].options[j].id
                  Set == [q \in Questions |-> [q EXCEPT !.correctOptionId = value]]
              IN  /\ QuizModule.questions[i].correctOptionId # value
                  /\ QuizOnUpdate(MapQuestion(QuizModule.questions, qId, Set))
    /\ UNCHANGED now
    /\ UnchangedByQuiz

\* addOption(q.id)
AddOption ==
    /\ \E i \in DOMAIN QuizModule.questions :
          LET qId == QuizModule.questions[i].id
              newOptId == OptionId(now)
              Add == [q \in Questions |-> [q EXCEPT !.options =
                            Append(@, [id |-> newOptId, text |-> OptionText(Len(@) + 1)])]]
          IN  /\ Len(QuizModule.questions[i].options) < MaxOptions
              /\ QuizOnUpdate(MapQuestion(QuizModule.questions, qId, Add))
    /\ UNCHANGED now
    /\ UnchangedByQuiz

\* updateOption(q.id, opt.id, text)
UpdateOption ==
    /\ \E i \in DOMAIN QuizModule.questions :
          \E j \in DOMAIN QuizModule.questions[i].options, text \in TypedTitles :
              LET qId == QuizModule.questions[i].id
                  optId == QuizModule.questions[i].options[j].id
                  Set == [q \in Questions |-> [q EXCEPT !.options =
                                [k \in DOMAIN @ |-> IF @[k].id = optId
                                                    THEN [@[k] EXCEPT !.text = text]
                                                    ELSE @[k]]]]
              IN  /\ QuizModule.questions[i].options[j].text # text
                  /\ QuizOnUpdate(MapQuestion(QuizModule.questions, qId, Set))
    /\ UNCHANGED now
    /\ UnchangedByQuiz

\* removeOption(q.id, opt.id) from the button of an option the editor lists
RemoveOption ==
    /\ \E i \in DOMAIN QuizModule.questions :
          \E j \in DOMAIN QuizModule.questions[i].options :
              LET qId == QuizModule.questions[i].id
                  optId == QuizModule.questions[i].options[j].id
                  Remove == [q \in Questions |-> RemoveOptionFrom(q, optId)]
              IN  QuizOnUpdate(MapQuestion(QuizModule.questions, qId, Remove))
    /\ UNCHANGED now
    /\ UnchangedByQuiz


\* the editor on a course whose only module is a quiz added earlier
QuizInit ==
    /\ now = 0
    /\ EditorOpen([createNewCourse(0 - 2) EXCEPT !.modules = <<NewQuizModule(0 - 1)>>])

QuizNext ==
    \/ AddQuestion
    \/ UpdateQuestion
    \/ AddOption
    \/ UpdateOption
    \/ RemoveOption
    \/ ClockTick

QuizSpec == QuizInit /\ [][QuizNext]_vars

(***************************************************************************)
(* StudentPage.                                                            *)
(***************************************************************************)
\* a quiz module with n questions, as the quiz editor builds it
QuizWith(t, n) ==
    [NewQuizModule(t) EXCEPT !.questions = [i \in 1..n |-> NewQuestion(t + i, t + i, t + i, t + i)]]

\* duplicateModule's copy of module m
CopyOf(m, t) == [m EXCEPT !.id = ModId(t), !.title = Append(@, "(Copia)")]

\* module lists the editor produces and exports
StudentModuleLists ==
    {<<>>,
     <<NewModule("text", 1)>>,
     <<NewModule("text", 1), QuizWith(2, 2)>>,
     <<QuizWith(2, 1), NewModule("text", 5), QuizWith(6, 1)>>,
     <<QuizWith(2, 2), QuizWith(6, 2)>>,
     <<QuizWith(2, 1), CopyOf(QuizWith(2, 1), 5)>>}

\* derived state of StudentPage
CurrentModuleDefined == currentModuleIndex + 1 \in DOMAIN course.modules
CurrentModule == course.modules[currentModuleIndex + 1]
IsFirst == currentModuleIndex = 0
IsLast == currentModuleIndex = Len(course.modules) - 1

\* the module screen is rendered: not the results screen, and the render does not
\* throw on currentModule.type
StudentShown == view = "student" /\ ~showResults /\ CurrentModuleDefined

\* isAnswered = !!answers[q.id]
IsAnswered(q) == q.id \in DOMAIN answers

\* prev => ({ ...prev, [q.id]: opt.id })
SetAnswer(prev, qId, optId) ==
    [k \in DOMAIN prev \cup {qId} |-> IF k = qId THEN optId ELSE prev[k]]

\* what the student player leaves alone
UnchangedByStudent ==
    /\ UNCHANGED <<course, view, alerts, debounceTimeout, dbCourses, blobStore, console,
                   now, updates, edits, burst>>
    /\ UnchangedZip /\ UnchangedUnzip /\ UnchangedModal

\* StudentPage.handleNext
HandleNext ==
    /\ StudentShown
    /\ IF IsLast
       THEN showResults' = TRUE /\ UNCHANGED currentModuleIndex
       ELSE currentModuleIndex' = currentModuleIndex + 1 /\ UNCHANGED showResults
    /\ UNCHANGED answers
    /\ UnchangedByStudent

\* StudentPage.handlePrev
HandlePrev ==
    /\ StudentShown
    /\ IF ~IsFirst
       THEN currentModuleIndex' = currentModuleIndex - 1
       ELSE UNCHANGED currentModuleIndex
    /\ UNCHANGED <<showResults, answers>>
    /\ UnchangedByStudent

\* a button of the sidebar: setCurrentModuleIndex(idx)
SelectModule ==
    /\ StudentShown
    /\ \E idx \in 0..(Len(course.modules) - 1) : currentModuleIndex' = idx
    /\ UNCHANGED <<showResults, answers>>
    /\ UnchangedByStudent

\* a click on an option of a question of the quiz shown:
\* !isAnswered && setAnswers(prev => ({ ...prev, [q.id]: opt.id }))
AnswerOption ==
    /\ StudentShown
    /\ CurrentModule.type = "quiz"
    /\ \E i \in DOMAIN CurrentModule.questions :
          \E j \in DOMAIN CurrentModule.questions[i].options :
              LET q == CurrentModule.questions[i]
                  opt == q.options[j]
              IN  IF ~IsAnswered(q)
                  THEN answers' = SetAnswer(answers, q.id, opt.id)
                  ELSE UNCHANGED answers
    /\ UNCHANGED <<currentModuleIndex, showResults>>
    /\ UnchangedByStudent

\* the App after handleLoadStudentDemo: setCourse(demoCourse), setView('student')
StudentInit ==
    /\ \E modules \in StudentModuleLists :
          course = [createNewCourse(0) EXCEPT !.modules = modules]
    /\ view = "student"
    /\ alerts = 0
    /\ debounceTimeout = NoTimer
    /\ updates = 0
    /\ edits = 0
    /\ burst = 0
    /\ StudentUnmounted
    /\ dbCourses = <<>>
    /\ blobStore = <<>>
    /\ console = {}
    /\ zcourse = Null
    /\ zids = NoFilter
    /\ courseToSave = Null
    /\ zip = <<>>
    /\ zi = 0
    /\ zpc = "idle"
    /\ zstatus = "idle"
    /\ ufile = <<>>
    /\ ucourse = Null
    /\ uwait = {}
    /\ upc = "idle"
    /\ now = 0
    /\ isExportSelectionModalOpen = FALSE
    /\ selectedModuleIdsForExport = <<>>
    /\ selectedIds = <<>>

StudentNext ==
    \/ HandleNext
    \/ HandlePrev
    \/ SelectModule
    \/ AnswerOption

StudentSpec == StudentInit /\ [][StudentNext]_vars

(***************************************************************************)
(* Properties.                                                             *)
(***************************************************************************)
\* the document written as curso.json
Doc == zip[StrCursoJson].json

Written == zpc # "begin"

ZipAssets == NMedia + NMascot

PathSet(list) == {list[i].path : i \in DOMAIN list}

\* the record's content can be obtained: a raw file, or a live blob URL
Resolves(rec) ==
    \/ "file" \in DOMAIN rec
    \/ "blobUrl" \in DOMAIN rec /\ IsLive(blobStore, rec.blobUrl)

AllContentResolves ==
    /\ \A i \in DOMAIN zcourse.media : Resolves(zcourse.media[i])
    /\ \A i \in DOMAIN zcourse.mascot : Resolves(zcourse.mascot[i])

\* SubSeq(s, i, j) is s without its leading and trailing white space
IsTrimOf(s, i, j) ==
    /\ i <= j + 1
    /\ \A k \in 1..(i - 1) : s[k] \in WhiteSpace
    /\ \A k \in (j + 1)..Len(s) : s[k] \in WhiteSpace
    /\ i <= j => s[i] \notin WhiteSpace /\ s[j] \notin WhiteSpace

\* t with each character outside [A-Za-z0-9] replaced, one for one, by '_'
Underscored(t) == [k \in 1..Len(t) |-> IF IsAlnum(t[k]) THEN t[k] ELSE "_"]

\* p is mascot/<slug>_<tag>.png
IsMascotPath(p, slug, tag) ==
    /\ Len(p) = 7 + Len(slug) + 1 + Len(tag) + 4
    /\ SubSeq(p, 1, 7) = StrMascotDir
    /\ SubSeq(p, 8, 7 + Len(slug)) = slug
    /\ p[8 + Len(slug)] = "_"
    /\ SubSeq(p, 9 + Len(slug), 8 + Len(slug) + Len(tag)) = tag
    /\ SubSeq(p, Len(p) - 3, Len(p)) = StrPng

\* p is the mascot path of pose tag `tag` under `settings`, the slug taken from the
\* trimmed mascot name
IsCanonicalPath(p, settings, tag) ==
    IF "mascotName" \notin DOMAIN settings
    THEN IsMascotPath(p, StrMascot, tag)
    ELSE LET s == settings.mascotName
         IN  \E i \in 1..(Len(s) + 1), j \in 0..Len(s) :
                /\ IsTrimOf(s, i, j)
                /\ IsMascotPath(p, IF i > j THEN StrMascot ELSE Underscored(SubSeq(s, i, j)),
                                tag)

\* C1 (as stated): packing a course whose content all resolves, without a module
\* filter, and unpacking the result gives a course with the same modules, the same
\* settings and the same sets of media paths and mascot paths.
C1_RoundTripSamePaths ==
    (upc = "loaded" /\ ~zids.given /\ AllContentResolves) =>
        /\ course.modules = zcourse.modules
        /\ course.settings = zcourse.settings
        /\ PathSet(course.media) = PathSet(zcourse.media)
        /\ PathSet(course.mascot) = PathSet(zcourse.mascot)

\* C1 (amended): the round trip gives the same modules, the same settings and the
\* same set of media paths; the mascot poses come back in the same order with the
\* same tags, each under its export path mascot/<slug>_<tag>.png, so the set of
\* mascot paths is the original one only where the original paths already were the
\* export paths.
C1_RoundTrip ==
    (upc = "loaded" /\ ~zids.given /\ AllContentResolves) =>
        /\ course.modules = zcourse.modules
        /\ course.settings = zcourse.settings
        /\ course.id = zcourse.id
        /\ PathSet(course.media) = PathSet(zcourse.media)
        /\ Len(course.mascot) = Len(zcourse.mascot)
        /\ \A i \in DOMAIN zcourse.mascot :
              /\ course.mascot[i].type = zcourse.mascot[i].type
              /\ IsCanonicalPath(course.mascot[i].path, zcourse.settings,
                                  zcourse.mascot[i].type)
        /\ (PathSet(course.mascot) = PathSet(zcourse.mascot)) <=>
              \A i \in DOMAIN zcourse.mascot :
                  IsCanonicalPath(zcourse.mascot[i].path, zcourse.settings,
                                  zcourse.mascot[i].type)

\* a round trip of a course with media and an uploaded pose, all content resolving
C1_Witness ==
    /\ upc = "loaded" /\ ~zids.given /\ AllContentResolves
    /\ Len(zcourse.media) > 0
    /\ \E i \in DOMAIN zcourse.mascot : "file" \in DOMAIN zcourse.mascot[i]
    /\ Len(course.modules) = 3

StrDinoHappyClaimed ==
    <<"m","a","s","c","o","t","/","D","i","n","o","_","2","0","0","0","_",
      "h","a","p","p","y",".","p","n","g">>
StrDinoHappy ==
    <<"m","a","s","c","o","t","/","D","i","n","o","_","2","0","0","0","_","_",
      "h","a","p","p","y",".","p","n","g">>
StrMascotHappy ==
    <<"m","a","s","c","o","t","/","m","a","s","c","o","t","_",
      "h","a","p","p","y",".","p","n","g">>

HasName(c, n) == "mascotName" \in DOMAIN c.settings /\ c.settings.mascotName = n

\* the happy pose of the course is written under path p: p is its path in
\* curso.json and, once its content has been packed, the name of its entry
HappyPoseWrittenAs(p) ==
    \A i \in DOMAIN zcourse.mascot :
        zcourse.mascot[i].type = StrHappy =>
            /\ Doc.mascot[i].path = p
            /\ (zi >= NMedia + i /\ "file" \in DOMAIN zcourse.mascot[i]) =>
                  /\ HasEntry(zip, p)
                  /\ \A q \in DOMAIN zip : q # StrCursoJson /\ q \notin PathSet(Doc.media) /\
                        q \notin {Doc.mascot[j].path : j \in DOMAIN Doc.mascot \ {i}} => q = p

\* C2 (as stated): with mascot name "Dino 2000!" the happy pose is written as
\* mascot/Dino_2000_happy.png, with mascot name "" as mascot/mascot_happy.png.
C2_DinoPathClaimed ==
    Written =>
        /\ HasName(zcourse, DinoName) => HappyPoseWrittenAs(StrDinoHappyClaimed)
        /\ HasName(zcourse, <<>>) => HappyPoseWrittenAs(StrMascotHappy)

\* C2 (amended): with mascot name "Dino 2000!" the happy pose is written as
\* mascot/Dino_2000__happy.png (the '!' becomes a '_' before the separating '_'),
\* in curso.json and as the entry name; with mascot name "" as
\* mascot/mascot_happy.png.
C2_DinoPath ==
    Written =>
        /\ HasName(zcourse, DinoName) => HappyPoseWrittenAs(StrDinoHappy)
        /\ HasName(zcourse, <<>>) => HappyPoseWrittenAs(StrMascotHappy)

\* both examples have been packed: a happy pose with a raw file, under either name
C2_Witness ==
    /\ zstatus = "resolved"
    /\ HasName(zcourse, DinoName)
    /\ \E i \in DOMAIN zcourse.mascot :
          /\ zcourse.mascot[i].type = StrHappy
          /\ "file" \in DOMAIN zcourse.mascot[i]
          /\ HasEntry(zip, StrDinoHappy)

\* C3 (as stated): every mascot path is mascot/<slug>_<tag>.png with slug the
\* mascot name, each character outside [A-Za-z0-9] replaced one for one by '_'
\* (so as long as the name), and 'mascot' exactly when that result is empty.
C3_SlugOfWholeName ==
    Written =>
        \A i \in DOMAIN zcourse.mascot :
            "mascotName" \in DOMAIN zcourse.settings =>
                LET u == Underscored(zcourse.settings.mascotName)
                IN  IsMascotPath(Doc.mascot[i].path, IF u = <<>> THEN StrMascot ELSE u,
                                 zcourse.mascot[i].type)

\* C3 (amended): every mascot path is mascot/<slug>_<tag>.png, in curso.json and in
\* courseToSave (which names the entries), with slug the mascot name with its leading
\* and trailing white space removed and then each character outside [A-Za-z0-9]
\* replaced one for one by '_' (so as long as the trimmed name), and 'mascot' exactly
\* when the trimmed name is empty or no name is set; the extension is .png whatever
\* the pose's original path was.
C3_SlugOfTrimmedName ==
    Written =>
        /\ Len(Doc.mascot) = Len(zcourse.mascot)
        /\ \A i \in DOMAIN zcourse.mascot :
              /\ IsCanonicalPath(Doc.mascot[i].path, zcourse.settings, zcourse.mascot[i].type)
              /\ courseToSave.mascot[i].path = Doc.mascot[i].path

\* a name with white space at an end, a name of white space only, and a pose whose
\* original path did not end in .png
C3_Witness ==
    /\ Written
    /\ "mascotName" \in DOMAIN zcourse.settings
    /\ zcourse.settings.mascotName \in {<<" ", "a">>, <<"!", " ">>, <<" ", " ">>}
    /\ \E i \in DOMAIN zcourse.mascot :
          SubSeq(zcourse.mascot[i].path, Len(zcourse.mascot[i].path) - 3,
                 Len(zcourse.mascot[i].path)) = StrJpg

RECURSIVE KeepIds(_, _)
\* the modules whose id is in ids, in the order of the list
KeepIds(modules, ids) ==
    IF modules = <<>> THEN <<>>
    ELSE IF Head(modules).id \in ids
         THEN <<Head(modules)>> \o KeepIds(Tail(modules), ids)
         ELSE KeepIds(Tail(modules), ids)

\* C4: the module list of curso.json is the modules whose id is among the given
\* ids, in course order whatever the order of the ids (the full list when no ids are
\* given); every mascot pose is in the document, and every pose whose content can be
\* obtained has its entry in the archive, whatever the filter.
C4_Filtering ==
    Written =>
        /\ Doc.modules = IF zids.given THEN KeepIds(zcourse.modules, Range(zids.ids))
                                       ELSE zcourse.modules
        /\ Len(Doc.mascot) = Len(zcourse.mascot)
        /\ \A i \in DOMAIN zcourse.mascot :
              /\ Doc.mascot[i].type = zcourse.mascot[i].type
              /\ (zstatus = "resolved" /\ Resolves(zcourse.mascot[i])) =>
                    HasEntry(zip, Doc.mascot[i].path)
        /\ Len(Doc.media) = Len(zcourse.media)

\* ids given in the reverse of course order select the modules in course order, and
\* the pose is packed
C4_Witness ==
    /\ zstatus = "resolved"
    /\ zids.given /\ zids.ids = <<"m3", "m1">>
    /\ zcourse.modules = ThreeModules
    /\ Doc.modules = <<Module("m1"), Module("m3")>>
    /\ \E i \in DOMAIN Doc.mascot : HasEntry(zip, Doc.mascot[i].path)

\* the fetch of media record k of the course failed: it has no raw file, its
\* iteration is over, and its blob URL is revoked or the failure was logged
MediaFetchFailed(k) ==
    /\ Written
    /\ zi >= k
    /\ "file" \notin DOMAIN zcourse.media[k]
    /\ \/ "blobUrl" \in DOMAIN zcourse.media[k] /\ ~IsLive(blobStore, zcourse.media[k].blobUrl)
       \/ WarnMedia(zcourse.media[k]) \in console

\* C5: when a media asset has no raw file and the fetch of its blobUrl fails, the
\* failure does not reject zipCourse; the archive's curso.json references the asset's
\* path and the archive has no entry at that path; unzipCourse of that archive does
\* not fail, and returns the media record without a blobUrl.
C5_MissingAssetTolerated ==
    \A k \in DOMAIN zcourse.media :
        MediaFetchFailed(k) =>
            /\ zstatus = "rejected" => zi = ZipAssets
            /\ Doc.media[k].path = zcourse.media[k].path
            /\ ~HasEntry(zip, zcourse.media[k].path)
            /\ (upc # "idle" /\ ufile = zip) =>
                  /\ upc # "failed"
                  /\ alerts = 0
                  /\ <<"media", k>> \notin uwait
                  /\ ucourse.media[k].path = zcourse.media[k].path
                  /\ "blobUrl" \notin DOMAIN ucourse.media[k]
            /\ (upc = "loaded" /\ ufile = zip) =>
                  /\ course.media[k].id = zcourse.media[k].id
                  /\ "blobUrl" \notin DOMAIN course.media[k]

\* an archive with a missing media entry was packed and loaded, next to an asset
\* that was packed
C5_Witness ==
    /\ upc = "loaded" /\ ufile = zip
    /\ \E k \in DOMAIN zcourse.media :
          /\ MediaFetchFailed(k)
          /\ "blobUrl" \in DOMAIN zcourse.media[k]
    /\ Cardinality(DOMAIN zip) > 1

\* the number of blob URLs of the page before unzipCourse ran
InitialUrls == Len(zcourse.media) + Len(zcourse.mascot)

\* C6: unzipCourse of an archive with no curso.json fails with one error notice and
\* returns no course; no asset record is processed, no blob URL is created, and the
\* App's course and view stay as they were (no course, the home view), with no save
\* scheduled.
C6_FatalOnMissingManifest ==
    (upc # "idle" /\ ~HasEntry(ufile, StrCursoJson)) =>
        /\ upc = "failed"
        /\ alerts = 1
        /\ ErrorOpen \in console
        /\ ucourse = Null
        /\ uwait = {}
        /\ Len(blobStore) = InitialUrls
        /\ course = Null
        /\ view = "home"
        /\ debounceTimeout = NoTimer
        /\ dbCourses = <<>>

\* an archive that holds binary entries but no curso.json was opened
C6_Witness ==
    /\ upc = "failed"
    /\ ~HasEntry(ufile, StrCursoJson)
    /\ Cardinality(DOMAIN ufile) >= 2

\* the paths the document lists
DocPaths == PathSet(Doc.media) \cup PathSet(Doc.mascot)

MediaObtained(k) ==
    \/ "file" \in DOMAIN zcourse.media[k]
    \/ WarnMedia(zcourse.media[k]) \notin console
MascotObtained(i) ==
    \/ "file" \in DOMAIN zcourse.mascot[i]
    \/ WarnMascot(courseToSave.mascot[i]) \notin console

C8_MascotEntriesNormalized ==
    zstatus = "resolved" =>
        \A i \in DOMAIN courseToSave.mascot :
            HasEntry(zip, courseToSave.mascot[i].path) =>
                LET e == zip[courseToSave.mascot[i].path]
                IN  e.format = "png" /\ e.width = Side /\ e.height = Side

\* C9: no failure of a media fetch, a mascot fetch or a normalization rejects
\* zipCourse: it rejects only in generateAsync, after every asset was processed, and
\* when it resolves the archive contains curso.json.
C9_OnlyGenerationRejects ==
    /\ zstatus = "rejected" => zpc = "done" /\ zi = ZipAssets
    /\ zstatus = "resolved" =>
          /\ zpc = "done" /\ zi = ZipAssets
          /\ HasEntry(zip, StrCursoJson)
          /\ zip[StrCursoJson].format = "json"
    /\ (zpc = "loop" /\ zi > 0) => zstatus = "pending"

\* zipCourse resolved although a fetch and a normalization failed
C9_Witness ==
    /\ zstatus = "resolved"
    /\ \E m \in console : m[1] = "warn"
    /\ \E m \in console : m[1] = "error"

\* C10: no media or mascot record of curso.json has a file or a blobUrl field: the
\* records keep only their other fields, and contents are entries of their own.
C10_NoHandlesInDocument ==
    Written =>
        /\ \A k \in DOMAIN Doc.media :
              /\ "file" \notin DOMAIN Doc.media[k]
              /\ "blobUrl" \notin DOMAIN Doc.media[k]
              /\ Doc.media[k] = Without(zcourse.media[k], {"file", "blobUrl"})
        /\ \A i \in DOMAIN Doc.mascot :
              /\ "file" \notin DOMAIN Doc.mascot[i]
              /\ "blobUrl" \notin DOMAIN Doc.mascot[i]
              /\ DOMAIN Doc.mascot[i] = {"type", "path"}

\* a document was written for records holding a file and a blobUrl, a blobUrl
\* only, and neither
C10_Witness ==
    /\ Written
    /\ \E k \in DOMAIN zcourse.media : {"file", "blobUrl"} \subseteq DOMAIN zcourse.media[k]
    /\ \E i \in DOMAIN zcourse.mascot :
          "blobUrl" \in DOMAIN zcourse.mascot[i] /\ "file" \notin DOMAIN zcourse.mascot[i]

\* the document of the archive unzipCourse was given
UDoc == JSONParse(ufile[StrCursoJson])

\* the media or the mascot list of a course
AssetList(c, kind) == IF kind = "media" THEN c.media ELSE c.mascot

AssetKinds == {"media", "mascot"}

\* unzipCourse has parsed the document of its archive
Parsed == upc \in {"extract", "loaded"}

\* the per-asset callback of record k has finished
Extracted(kind, k) ==
    /\ HasEntry(ufile, AssetList(UDoc, kind)[k].path)
    /\ <<kind, k>> \notin uwait

\* C11: unzipCourse attaches a blobUrl to a media or mascot record exactly when the
\* archive has an entry at the path the document declares for it; the URL is a new
\* one (not a URL of the page before the call, and not shared with another record)
\* bound to that entry's content; a record with no entry is returned as the document
\* has it, without a blobUrl; and every record is at all times either as the
\* document has it or that plus its own blobUrl (no lookup changes another record).
C11_BlobUrlIffEntry ==
    Parsed =>
        /\ \A kind \in AssetKinds :
              /\ Len(AssetList(ucourse, kind)) = Len(AssetList(UDoc, kind))
              /\ \A k \in DOMAIN AssetList(UDoc, kind) :
                    LET d == AssetList(UDoc, kind)[k]
                        r == AssetList(ucourse, kind)[k]
                    IN  IF Extracted(kind, k)
                        THEN /\ "blobUrl" \in DOMAIN r
                             /\ r = SetBlobUrl(d, r.blobUrl)
                             /\ r.blobUrl \in (InitialUrls + 1)..Len(blobStore)
                             /\ blobStore[r.blobUrl] = ufile[d.path]
                             /\ \A kind2 \in AssetKinds :
                                   \A k2 \in DOMAIN AssetList(ucourse, kind2) :
                                       LET r2 == AssetList(ucourse, kind2)[k2]
                                       IN  ("blobUrl" \in DOMAIN r2 /\ r2.blobUrl = r.blobUrl)
                                               => (kind2 = kind /\ k2 = k)
                        ELSE /\ r = d
                             /\ "blobUrl" \notin DOMAIN r
        /\ upc = "loaded" =>
              /\ uwait = {}
              /\ course = ucourse
              /\ \A kind \in AssetKinds :
                    \A k \in DOMAIN AssetList(course, kind) :
                        "blobUrl" \in DOMAIN AssetList(course, kind)[k]
                            <=> HasEntry(ufile, AssetList(UDoc, kind)[k].path)

\* an archive was loaded in which one record has its entry, another has none, of
\* both kinds
C11_Witness ==
    /\ upc = "loaded"
    /\ \E k \in DOMAIN course.media : "blobUrl" \notin DOMAIN course.media[k]
    /\ \E k \in DOMAIN course.mascot : "blobUrl" \in DOMAIN course.mascot[k]
    /\ Len(course.media) + Len(course.mascot) >= 2

\* the ids of a media list, the pose tags of a mascot list, in list order
IdsOf(list) == [i \in DOMAIN list |-> list[i].id]
TagsOf(list) == [i \in DOMAIN list |-> list[i].type]
PathsOf(list) == [i \in DOMAIN list |-> list[i].path]

\* C12: the module, media and mascot lists of curso.json follow the order of the
\* course's lists (the modules that are kept appear in course order, record k of the
\* document is record k of the course), and the media and mascot lists unzipCourse
\* returns follow the order of the document, in every state of every interleaving
\* of the per-asset extractions, whichever completes first.
C12_OrderFollowsLists ==
    /\ Written =>
          /\ Doc.modules =
                SelectSeq(zcourse.modules, LAMBDA m : \E a \in DOMAIN Doc.modules : Doc.modules[a] = m)
          /\ IdsOf(Doc.media) = IdsOf(zcourse.media)
          /\ PathsOf(Doc.media) = PathsOf(zcourse.media)
          /\ TagsOf(Doc.mascot) = TagsOf(zcourse.mascot)
    /\ Parsed =>
          /\ IdsOf(ucourse.media) = IdsOf(UDoc.media)
          /\ PathsOf(ucourse.media) = PathsOf(UDoc.media)
          /\ TagsOf(ucourse.mascot) = TagsOf(UDoc.mascot)
          /\ PathsOf(ucourse.mascot) = PathsOf(UDoc.mascot)
          /\ ucourse.modules = UDoc.modules
    /\ upc = "loaded" =>
          /\ IdsOf(course.media) = IdsOf(UDoc.media)
          /\ TagsOf(course.mascot) = TagsOf(UDoc.mascot)
          /\ PathsOf(course.mascot) = PathsOf(UDoc.mascot)
          /\ course.modules = UDoc.modules

\* a course was returned whose later record was extracted first: the URL of record 2
\* was created before the URL of record 1
C12_Witness ==
    /\ upc = "loaded"
    /\ \/ /\ Len(course.media) >= 2
          /\ {"blobUrl"} \subseteq DOMAIN course.media[1] \cap DOMAIN course.media[2]
          /\ course.media[2].blobUrl < course.media[1].blobUrl
       \/ /\ Len(course.mascot) >= 2
          /\ {"blobUrl"} \subseteq DOMAIN course.mascot[1] \cap DOMAIN course.mascot[2]
          /\ course.mascot[2].blobUrl < course.mascot[1].blobUrl
    /\ Len(course.modules) >= 2

\* the poses of a mascot list that carry tag t / another tag
PosesOf(mascot, t) == SelectSeq(mascot, LAMBDA m : m.type = t)
PosesNotOf(mascot, t) == SelectSeq(mascot, LAMBDA m : m.type # t)

\* the step uploaded a pose (an upload is what creates a blob URL in the editor)
UploadStep == blobStore' # blobStore

\* C13: in an editor session that starts from a course without poses, after any
\* uploads and removals the course has at most one pose per tag; an upload for a
\* tag leaves that tag with the uploaded pose only (a prior pose of the tag is gone)
\* and leaves the poses of every other tag as they were; a removal takes out the
\* poses of one tag and nothing else.
C13_OnePosePerTag ==
    /\ [](\A i, j \in DOMAIN course.mascot :
              course.mascot[i].type = course.mascot[j].type => i = j)
    /\ [][UploadStep =>
            LET new == course'.mascot[Len(course'.mascot)]
            IN  /\ new.blobUrl = Len(blobStore')
                /\ PosesOf(course'.mascot, new.type) = <<new>>
                /\ PosesNotOf(course'.mascot, new.type) = PosesNotOf(course.mascot, new.type)]_vars
    /\ [][(course'.mascot # course.mascot /\ ~UploadStep) =>
            \E t \in EditorPoseTags :
                /\ PosesOf(course.mascot, t) # <<>>
                /\ course'.mascot = PosesNotOf(course.mascot, t)]_vars

\* a third upload replaced the first pose of its tag and kept the pose of the other tag
C13_Witness ==
    /\ Len(blobStore) = 3
    /\ Len(course.mascot) = 2
    /\ course.mascot[1].blobUrl = 2
    /\ course.mascot[2].blobUrl = 3
    /\ course.mascot[1].type # course.mascot[2].type

\* what the object store holds under the id of the in-memory course
Cached == IF course.id \in DOMAIN dbCourses THEN dbCourses[course.id] ELSE Null

\* the step ran the callback of the pending timer
WriteStep == debounceTimeout.timer /\ ~debounceTimeout'.timer

\* Updates that arrive while a save is pending issue no write and restart the
\* one-second delay; the pending save carries the value of the last update; the
\* write is issued only when the delay has elapsed, follows all pending updates, and
\* puts the stored form of the last update's value (or fails and is logged).
Coalesced ==
    /\ [](debounceTimeout.timer =>
             /\ debounceTimeout.course = course
             /\ updates >= 1)
    /\ [](~debounceTimeout.timer => updates = 0)
    /\ [][updates' > updates =>
             /\ dbCourses' = dbCourses /\ console' = console
             /\ debounceTimeout'.timer /\ ~debounceTimeout'.due]_vars
    /\ [][WriteStep =>
             /\ debounceTimeout.due
             /\ updates' = 0 /\ burst' = updates
             /\ \/ dbCourses' = StorePut(dbCourses, CourseToStore(course))
                \/ dbCourses' = dbCourses /\ ErrorSave \in console']_vars
    /\ [][(dbCourses' # dbCourses \/ console' # console) => WriteStep]_vars

\* C14: debounce coalescing (Coalesced); once updates stop the timer fires, and
\* from then on, unless a write has failed, the cached course is the in-memory
\* course without the file property of its media and mascot records.
C14_DebounceCoalesces ==
    /\ Coalesced
    /\ <>[](~debounceTimeout.timer)
    /\ <>[](ErrorSave \notin console => Cached = CourseToStore(course))

\* one write followed a burst of two or more updates; the cached course is the
\* stored form of the in-memory course and differs from it
C14_Witness ==
    /\ ~debounceTimeout.timer
    /\ burst >= 2
    /\ console = {}
    /\ Cached = CourseToStore(course)
    /\ Cached # course

\* C14 as stated: debounce coalescing, and once updates stop the cached course
\* eventually equals the in-memory course
C14_CachedEqualsInMemory ==
    /\ Coalesced
    /\ <>[](Cached = course)

\* C15: after any sequence of addModule and duplicateModule operations, at any clock
\* readings, no two modules of the course have the same id.
C15_ModuleIdsUnique ==
    \A i, j \in DOMAIN course.modules :
        course.modules[i].id = course.modules[j].id => i = j

\* C16: whatever toggleSelection and toggleAll did in the export modal, zipCourse
\* is never called with an empty module-id list: every call made from the modal
\* passes a list with at least one id.
C16_NoEmptyExport ==
    zpc # "idle" => zids # NoFilter /\ zids.ids # <<>>

\* the modal is open on a course with modules, every module has been toggled off,
\* and the packer has not been called
C16_Witness ==
    /\ isExportSelectionModalOpen
    /\ Len(course.modules) >= 2
    /\ selectedIds = <<>>
    /\ zpc = "idle"

\* the ids of the modules of course c
ModuleIdSet(c) == {c.modules[k].id : k \in DOMAIN c.modules}

\* C17: while the export modal is open, whatever toggleSelection and toggleAll did,
\* every id of selectedIds (and of the preselection it was opened with) is the id
\* of a module of the course; the ids passed to zipCourse on confirm are all ids
\* of modules of the course passed with them.
C17_SelectionWithinCourse ==
    /\ isExportSelectionModalOpen =>
          /\ Range(selectedIds) \subseteq ModuleIdSet(course)
          /\ Range(selectedModuleIdsForExport) \subseteq ModuleIdSet(course)
    /\ zpc # "idle" =>
          /\ zids.given
          /\ Range(zids.ids) \subseteq ModuleIdSet(zcourse)
          /\ Range(zids.ids) \subseteq ModuleIdSet(course)

\* the export was confirmed with one of the two distinct modules toggled off
C17_Witness ==
    /\ zpc = "begin"
    /\ Len(zcourse.modules) = 2
    /\ zcourse.modules[1].id # zcourse.modules[2].id
    /\ zids.given
    /\ Len(zids.ids) = 1

\* e is a 1500x1500 PNG
Normalized(e) == e.format = "png" /\ e.width = Side /\ e.height = Side

\* a canvas whose 2d context and toBlob both work
WorkingCanvas == [ctx |-> TRUE, blob |-> TRUE]

\* pose i of the course has content zipCourse can obtain, and PoseContent(i) is it
PoseContent(i) ==
    IF "file" \in DOMAIN zcourse.mascot[i] THEN zcourse.mascot[i].file
    ELSE blobStore[zcourse.mascot[i].blobUrl]

\* the mascot loop has finished the iteration of pose i
PoseDone(i) == Written /\ zi >= NMedia + i

\* the normalizer resolved in the iteration of pose i
PoseResized(i) ==
    /\ PoseDone(i)
    /\ HasEntry(zip, courseToSave.mascot[i].path)
    /\ ErrorResize(courseToSave.mascot[i]) \notin console

\* C18: for every decodable image the normalizer, where it produces an output (the
\* canvas works), produces a 1500x1500 PNG, and the normalizer applied to that
\* output again produces a 1500x1500 PNG: every entry zipCourse wrote from a
\* normalizer output is one, whether the pose's content was of another size or
\* already 1500x1500, and normalizing the entry once more gives one again.
C18_NormalizeIdempotent ==
    Written =>
        \A i \in DOMAIN zcourse.mascot :
            /\ (Resolves(zcourse.mascot[i]) /\ PoseContent(i).decodes) =>
                  LET once == resizeImageToSquare(PoseContent(i), WorkingCanvas)
                  IN  /\ ~once.rejected
                      /\ Normalized(once.blob)
                      /\ ~resizeImageToSquare(once.blob, WorkingCanvas).rejected
                      /\ Normalized(resizeImageToSquare(once.blob, WorkingCanvas).blob)
            /\ PoseResized(i) =>
                  LET e == zip[courseToSave.mascot[i].path]
                  IN  /\ Normalized(e)
                      /\ e.decodes
                      /\ \A canvas \in CanvasEnvs :
                            LET again == resizeImageToSquare(e, canvas)
                            IN  IF canvas = WorkingCanvas
                                THEN ~again.rejected /\ Normalized(again.blob)
                                ELSE again.rejected

\* an archive holds the normalized entries of a pose whose content was 800x600 and
\* of a pose whose content already was a 1500x1500 PNG
C18_Witness ==
    /\ zstatus = "resolved"
    /\ \E i, j \in DOMAIN zcourse.mascot :
          /\ PoseResized(i) /\ PoseResized(j)
          /\ Resolves(zcourse.mascot[i]) /\ Resolves(zcourse.mascot[j])
          /\ ~Normalized(PoseContent(i))
          /\ Normalized(PoseContent(j))

\* C19: every mascot pose whose content zipCourse obtains goes through the
\* normalizer before an entry for it is inserted: no entry exists at a pose's path
\* before the pose's iteration, and after it the entry is the Blob the canvas made
\* from the content (also when the content already was a 1500x1500 PNG), or the
\* normalizer was run, failed, and its failure was logged.
C19_NormalizerNeverSkipped ==
    Written =>
        \A i \in DOMAIN courseToSave.mascot :
            LET item == courseToSave.mascot[i]
            IN  /\ HasEntry(zip, item.path) => PoseDone(i)
                /\ (PoseDone(i) /\ Resolves(zcourse.mascot[i])) =>
                      /\ HasEntry(zip, item.path)
                      /\ \/ /\ zip[item.path].made = "canvas"
                            /\ zip[item.path].data = PoseContent(i).data
                            /\ ErrorResize(item) \notin console
                         \/ /\ ErrorResize(item) \in console
                            /\ zip[item.path] = PoseContent(i)
                /\ HasEntry(zip, item.path) =>
                      zip[item.path].made = "canvas" \/ ErrorResize(item) \in console

\* a pose whose content already was a 1500x1500 PNG read from an archive was
\* re-encoded by the canvas, next to a pose whose normalization failed
C19_Witness ==
    /\ zstatus = "resolved"
    /\ \E i, j \in DOMAIN zcourse.mascot :
          /\ Resolves(zcourse.mascot[i])
          /\ Normalized(PoseContent(i)) /\ PoseContent(i).made = "file"
          /\ zip[courseToSave.mascot[i].path].made = "canvas"
          /\ ErrorResize(courseToSave.mascot[j]) \in console

\* C20: for each media record of the course, the path in curso.json, the path in
\* courseToSave and the name of its binary entry are the path the record had when
\* zipCourse was called (which zipCourse leaves as it was), whatever the mascot name
\* and the module filter; the archive has no other entry besides curso.json and the
\* mascot entries.
C20_MediaPathsUnchanged ==
    Written =>
        /\ Len(Doc.media) = Len(zcourse.media)
        /\ Len(courseToSave.media) = Len(zcourse.media)
        /\ \A k \in DOMAIN zcourse.media :
              /\ Doc.media[k].path = zcourse.media[k].path
              /\ courseToSave.media[k].path = zcourse.media[k].path
              /\ zcourse.media[k].path = MediaPath(k)
              /\ (zi >= k /\ MediaObtained(k)) => HasEntry(zip, zcourse.media[k].path)
        /\ DOMAIN zip \subseteq
              {StrCursoJson} \cup PathSet(zcourse.media) \cup PathSet(courseToSave.mascot)

\* media were packed under a mascot name that is set and under a module filter
C20_Witness ==
    /\ zstatus = "resolved"
    /\ zids.given
    /\ HasName(zcourse, DinoName)
    /\ Len(zcourse.media) >= 1
    /\ Len(zcourse.mascot) >= 1
    /\ \A k \in DOMAIN zcourse.media : HasEntry(zip, zcourse.media[k].path)

\* C21: an archive zipCourse produces has a binary entry at a media path only when
\* the record's content was resolved (its raw file, or the bytes behind its
\* blobUrl); a fetch that completes with an error response inserts nothing.
C21_EntryOnlyWhenResolved ==
    zstatus = "resolved" =>
        \A k \in DOMAIN zcourse.media :
            HasEntry(zip, zcourse.media[k].path) =>
                LET item == zcourse.media[k]
                    e == zip[item.path]
                IN  \/ "file" \in DOMAIN item /\ e = item.file
                    \/ /\ "file" \notin DOMAIN item
                       /\ "blobUrl" \in DOMAIN item
                       /\ IsLive(blobStore, item.blobUrl)
                       /\ e = blobStore[item.blobUrl]

\* record r of the loaded course has its blobUrl if the archive has its entry
Joined(kind) ==
    \A k \in DOMAIN AssetList(ucourse, kind) :
        HasEntry(ufile, AssetList(ucourse, kind)[k].path)
            => "blobUrl" \in DOMAIN AssetList(ucourse, kind)[k]

\* C22: unzipCourse resolves only when no per-asset lookup is pending; in the
\* course it returns every media and mascot record whose path has an entry carries
\* its blobUrl; after it has resolved no record of that course changes and no blob
\* URL is created for it.
C22_ResolvesAfterAllLookups ==
    /\ [](upc = "loaded" =>
             /\ uwait = {}
             /\ Joined("media") /\ Joined("mascot")
             /\ course = ucourse)
    /\ [][(upc # "loaded" /\ upc' = "loaded") => uwait = {}]_vars
    /\ [][upc = "loaded" =>
             /\ upc' = "loaded"
             /\ ucourse' = ucourse
             /\ course' = course
             /\ blobStore' = blobStore]_vars

\* a course was returned after two lookups had completed
C22_Witness ==
    /\ upc = "loaded"
    /\ Len(blobStore) >= InitialUrls + 2
    /\ Cardinality({<<kind, k>> \in AssetKinds \X (1..MaxAssets) :
                       /\ k \in DOMAIN AssetList(course, kind)
                       /\ "blobUrl" \in DOMAIN AssetList(course, kind)[k]}) >= 2

\* the modules whose record differs between the course before and after the step
ChangedModules == {k \in DOMAIN course.modules : course'.modules[k] # course.modules[k]}

\* C23: when two function updates are issued before the component renders again,
\* the resulting course contains the effect of both: after a pose upload followed by
\* a rename the course has the uploaded pose and the new name; after two
\* updateModule calls on different modules both modules are changed.
C23_BothUpdatesApplied ==
    [][updates' = updates + 2 =>
          IF blobStore' # blobStore
          THEN /\ \E i \in DOMAIN course'.mascot :
                     course'.mascot[i].blobUrl = Len(blobStore')
               /\ course'.settings.mascotName # course.settings.mascotName
          ELSE Cardinality(ChangedModules) >= 2]_vars

C25_CorrectOptionExists ==
    \A i \in DOMAIN QuizModule.questions :
        \E j \in DOMAIN QuizModule.questions[i].options :
            QuizModule.questions[i].options[j].id = QuizModule.questions[i].correctOptionId

\* C28: after any sequence of addQuestion, addOption and removeOption operations
\* every question has at least two options.
C28_AtLeastTwoOptions ==
    \A i \in DOMAIN QuizModule.questions : Len(QuizModule.questions[i].options) >= 2

\* the questions of the course as the player shows them: <<module, question>> positions
\* whose question reads as answered
AnsweredQuestions ==
    {p \in {<<m, i>> : m \in DOMAIN course.modules, i \in 1..MaxQuestions} :
        /\ course.modules[p[1]].type = "quiz"
        /\ p[2] \in DOMAIN course.modules[p[1]].questions
        /\ IsAnswered(course.modules[p[1]].questions[p[2]])}

\* C26: in the student player a recorded answer never changes, and answering a
\* question affects no other question: a step keeps every recorded answer and
\* makes at most one question of the course answered.
C26_AnswerOnceOthersUnaffected ==
    [][/\ \A k \in DOMAIN answers : k \in DOMAIN answers' /\ answers'[k] = answers[k]
       /\ Cardinality(AnsweredQuestions' \ AnsweredQuestions) <= 1]_vars

\* C27: in the student player 0 <= currentModuleIndex < course.modules.length
\* holds for any course.
C27_IndexInRange ==
    view = "student" =>
        /\ 0 <= currentModuleIndex
        /\ currentModuleIndex < Len(course.modules)

\* an id no module of the course has
UnknownModuleId == <<"mod_", "x">>

\* C29: moveModule only reorders: for every module id and direction the list after
\* moveModule is the list before it with the named module and its neighbour in that
\* direction swapped (a permutation of it); moving the first module up, the last
\* module down, or an unknown id leaves the list unchanged.
C29_MoveOnlyReorders ==
    view = "editor" =>
        \A moduleId \in ModuleIdSet(course) \cup {UnknownModuleId}, direction \in {"up", "down"} :
            LET before == course.modules
                after == ModulesAfterMove(before, moduleId, direction)
                index == FindIndex(before, moduleId)
                neighbour == IF direction = "up" THEN index - 1 ELSE index + 1
            IN  /\ Len(after) = Len(before)
                /\ \A m \in Range(before) \cup Range(after) :
                       Cardinality({i \in DOMAIN after : after[i] = m})
                           = Cardinality({i \in DOMAIN before : before[i] = m})
                /\ IF index = 0 \/ neighbour \notin DOMAIN before
                   THEN after = before
                   ELSE after = [before EXCEPT ![index] = before[neighbour],
                                               ![neighbour] = before[index]]

\* a module made at the later clock reading stands before one made at the earlier
\* reading, which only moveModule brings about
C29_Witness ==
    /\ view = "editor"
    /\ Len(course.modules) >= 2
    /\ course.modules[1].id = ModId(1)
    /\ course.modules[2].id = ModId(0)
    /\ course.modules[1] # course.modules[2]

\* C30: a mascot pose upload whose file type is not image/png is rejected and leaves
\* the course unchanged: no pose of the course ever holds a file of another type,
\* and the step that rejects an upload leaves the course (its pose list with any
\* existing pose of the tag included), the blob URLs and the pending save as they were.
C30_NonPngRejected ==
    /\ [](\A i \in DOMAIN course.mascot :
              "file" \in DOMAIN course.mascot[i] =>
                  FileType(course.mascot[i].file) = "image/png")
    /\ [][alerts' # alerts =>
            /\ course' = course
            /\ blobStore' = blobStore
            /\ debounceTimeout' = debounceTimeout
            /\ dbCourses' = dbCourses]_vars

\* an upload has been rejected in a session whose course holds a pose for each tag
C30_Witness ==
    /\ view = "editor"
    /\ alerts = 1
    /\ \A t \in EditorPoseTags : PosesOf(course.mascot, t) # <<>>

====
